---- MODULE Spec2Model ----
(***************************************************************************)
(* Georeferencing of ICOLD dams and reservoirs: the name/location          *)
(* similarity functions (Georeferencing_functions.py), the QA ranking of   *)
(* geocoded records (Geocoding_QA.py) and the registry geo-matching        *)
(* (Geomatching_ICOLD.py).                                                 *)
(*                                                                         *)
(* A Python string is a sequence of characters; a character is a TLA+      *)
(* string.  A float in [0,1] is a fraction <<numerator, denominator>>.     *)
(* The scores 0, 0.5, 1 and -1 are written 0, 5, 10 and -10, and a QA rank *)
(* r is written 10*r (1.2 is 12).  A call that raises has exc # "none".    *)
(***************************************************************************)
EXTENDS Integers, Sequences, FiniteSets, TLC

(* ------------------------------------------------------------------ *)
(* Python's str operations                                             *)
(* ------------------------------------------------------------------ *)

SetMin(S) == CHOOSE x \in S : \A y \in S : x <= y
SetMax(S) == CHOOSE x \in S : \A y \in S : x >= y

UpperToLower ==
  [c \in {"A","B","C","D","E","F","G","H","I","J","K","L","M",
          "N","O","P","Q","R","S","T","U","V","W","X","Y","Z"} |->
     CASE c = "A" -> "a" [] c = "B" -> "b" [] c = "C" -> "c" [] c = "D" -> "d"
       [] c = "E" -> "e" [] c = "F" -> "f" [] c = "G" -> "g" [] c = "H" -> "h"
       [] c = "I" -> "i" [] c = "J" -> "j" [] c = "K" -> "k" [] c = "L" -> "l"
       [] c = "M" -> "m" [] c = "N" -> "n" [] c = "O" -> "o" [] c = "P" -> "p"
       [] c = "Q" -> "q" [] c = "R" -> "r" [] c = "S" -> "s" [] c = "T" -> "t"
       [] c = "U" -> "u" [] c = "V" -> "v" [] c = "W" -> "w" [] c = "X" -> "x"
       [] c = "Y" -> "y" [] c = "Z" -> "z"]

\* str.lower()
Lower(s) == [i \in 1..Len(s) |-> IF s[i] \in DOMAIN UpperToLower THEN UpperToLower[s[i]] ELSE s[i]]

IsSpace(c) == c \in {" ", "\t"}
IsDigit(c) == c \in {"0","1","2","3","4","5","6","7","8","9"}

\* str.strip()
Strip(s) ==
  LET Cut(keep) == IF keep = {} THEN <<>> ELSE SubSeq(s, SetMin(keep), SetMax(keep))
  IN Cut({i \in 1..Len(s) : ~IsSpace(s[i])})

\* p occurs in s at the 0-based offset i
OccursAt(s, p, i) == i + Len(p) <= Len(s) /\ \A k \in 1..Len(p) : s[i + k] = p[k]

\* s.find(p): the 0-based offset of the first occurrence, or -1
Find(s, p) ==
  LET First(at) == IF at = {} THEN -1 ELSE SetMin(at)
  IN First({i \in 0..(Len(s) - Len(p)) : OccursAt(s, p, i)})

\* p in s
In(p, s) == Find(s, p) # -1

\* s[i], 0-based
At(s, i) == s[i + 1]

\* s[-n:], the last n characters
Tail_n(s, n) == IF Len(s) <= n THEN s ELSE SubSeq(s, Len(s) - n + 1, Len(s))

\* s[0:n], the first n characters
Head_n(s, n) == IF Len(s) <= n THEN s ELSE SubSeq(s, 1, n)

\* s.replace(old, new): non-overlapping occurrences, left to right
RECURSIVE ReplaceFrom(_, _, _, _)
ReplaceFrom(s, old, new, i) ==
  IF i >= Len(s) THEN <<>>
  ELSE IF OccursAt(s, old, i) THEN new \o ReplaceFrom(s, old, new, i + Len(old))
  ELSE <<s[i + 1]>> \o ReplaceFrom(s, old, new, i + 1)

Replace(s, old, new) == ReplaceFrom(s, old, new, 0)

\* the maximal runs of characters of s outside D, from index i on, the current run
\* starting at index start: what nested split() loops that drop '' parts collect, and
\* what s.split() returns
RECURSIVE RunsFrom(_, _, _, _)
RunsFrom(s, D, i, start) ==
  IF i > Len(s) THEN (IF start < i THEN <<SubSeq(s, start, i - 1)>> ELSE <<>>)
  ELSE IF s[i] \in D
       THEN (IF start < i THEN <<SubSeq(s, start, i - 1)>> ELSE <<>>) \o RunsFrom(s, D, i + 1, i + 1)
       ELSE RunsFrom(s, D, i + 1, start)

Runs(s, D) == RunsFrom(s, D, 1, 1)

\* re.findall(r'\d+', s): the maximal runs of digits
FindAllDigits(s) == Runs(s, {s[i] : i \in {j \in 1..Len(s) : ~IsDigit(s[j])}})

\* str.isdigit()
IsDigitStr(s) == Len(s) > 0 /\ \A i \in 1..Len(s) : IsDigit(s[i])

\* int(s) for a string of digits
RECURSIVE IntOf(_)
IntOf(s) ==
  IF s = <<>> THEN 0
  ELSE 10 * IntOf(SubSeq(s, 1, Len(s) - 1)) +
       (CHOOSE v \in 0..9 : <<"0","1","2","3","4","5","6","7","8","9">>[v + 1] = s[Len(s)])

Range(q) == {q[i] : i \in 1..Len(q)}

(* ------------------------------------------------------------------ *)
(* difflib.SequenceMatcher(None, a, b).ratio()                         *)
(* ------------------------------------------------------------------ *)

RECURSIVE CommonLen(_, _, _, _, _, _)
CommonLen(a, b, i, j, ahi, bhi) ==
  IF i > ahi \/ j > bhi THEN 0
  ELSE IF a[i] # b[j] THEN 0
  ELSE 1 + CommonLen(a, b, i + 1, j + 1, ahi, bhi)

\* find_longest_match: the longest block, earliest in a, then earliest in b
LongestMatch(a, b, alo, ahi, blo, bhi) ==
  LET P == (alo..ahi) \X (blo..bhi)
      L(p) == CommonLen(a, b, p[1], p[2], ahi, bhi)
      InB(k, bi) == <<bi, SetMin({p[2] : p \in {q \in P : q[1] = bi /\ L(q) = k}}), k>>
      InA(k) == InB(k, SetMin({p[1] : p \in {q \in P : L(q) = k}}))
  IN InA(SetMax({L(p) : p \in P}))

\* get_matching_blocks: the total size of the blocks found recursively
RECURSIVE Matches(_, _, _, _, _, _)
Matches(a, b, alo, ahi, blo, bhi) ==
  IF alo > ahi \/ blo > bhi THEN 0
  ELSE LET Around(m) ==
             IF m[3] = 0 THEN 0
             ELSE m[3] + Matches(a, b, alo, m[1] - 1, blo, m[2] - 1)
                       + Matches(a, b, m[1] + m[3], ahi, m[2] + m[3], bhi)
       IN Around(LongestMatch(a, b, alo, ahi, blo, bhi))

\* ratio(): 2*M/T, and 1.0 when both sequences are empty
Ratio(a, b) ==
  IF Len(a) + Len(b) = 0 THEN <<1, 1>>
  ELSE <<2 * Matches(a, b, 1, Len(a), 1, Len(b)), Len(a) + Len(b)>>

FracGE(x, y) == x[1] * y[2] >= y[1] * x[2]
FracMax(S) == CHOOSE x \in S : \A y \in S : FracGE(x, y)

Ok(v) == [exc |-> "none", val |-> v]
Raise(e) == [exc |-> e, val |-> <<0, 1>>]

(* ------------------------------------------------------------------ *)
(* The word lists of Georeferencing_functions.py                       *)
(* ------------------------------------------------------------------ *)

\* damname_similar: the ancillary titles, listed once; the source repeats the list three times
\* river_similar: the ancillary titles, listed once
\* damname_similar_v2: the ancillary titles, listed once
to_be_removed ==
  [ damname_similar |->
      <<
      <<" ", "l", "a", "k", "e", " ">>, <<" ", "d", "a", "m", " ">>, <<" ", "r", "e", "s", "e", "r", "v", "o", "i", "r", " ">>, <<" ", "b", "a", "r", "r", "a", "g", "e", " ">>,
      <<" ", "l", "a", "g", "o", " ">>, <<" ", "s", "h", "u", "i", "k", "u", " ">>, <<" ", "l", "a", "c", " ">>, <<" ", "p", "r", "e", "s", "a", " ">>,
      <<" ", "e", "m", "b", "a", "l", "s", "e", " ">>, <<" ", "b", "a", "r", "r", "a", "g", "e", "m", " ">>, <<" ", "a", "g", "u", "a", " ">>, <<" ", "s", "t", "u", "w", "a", "l", " ">>,
      <<" ", "w", "e", "i", "r", " ">>, <<" ", "d", "i", "k", "e", " ">>, <<" ", "d", "y", "k", "e", " ">>, <<" ", "l", "e", "v", "e", "e", " ">>,
      <<" ", "s", "t", "r", "u", "c", "t", "u", "r", "e", " ">>, <<" ", "c", "a", "n", "a", "l", " ">>, <<" ", "t", "a", "n", "k", " ">>
      >>,
    river_similar |->
      <<
      <<" ", "r", "i", "v", "e", "r", " ">>, <<" ", "c", "r", "e", "e", "k", " ">>, <<" ", "s", "t", "r", "e", "a", "m", " ">>, <<" ", "r", "i", "o", " ">>,
      <<" ", "b", "r", "o", "o", "k", " ">>, <<" ", "r", "u", "n", " ">>, <<" ", "b", "a", "y", " ">>, <<" ", "b", "r", "a", "n", "c", "h", " ">>,
      <<" ", "s", "l", "o", "u", "g", "h", " ">>, <<" ", "l", "a", "k", "e", " ">>, <<" ", "p", "o", "n", "d", " ">>, <<" ", "c", "a", "n", "y", "o", "n", " ">>,
      <<" ", "c", "a", "n", "a", "l", " ">>, <<" ", "d", "i", "k", "e", " ">>, <<" ", "d", "y", "k", "e", " ">>, <<" ", "g", "u", "l", "c", "h", " ">>,
      <<" ", "t", "r", "i", "b", "u", "t", "a", "r", "y", " ">>, <<" ", "d", "r", "a", "i", "n", " ">>, <<" ", "d", "r", "a", "w", " ">>, <<" ", "c", "h", "a", "n", "n", "e", "l", " ">>,
      <<" ", "a", "r", "r", "o", "y", "o", " ">>, <<" ", "d", "i", "t", "c", "h", " ">>, <<" ", "o", "f", "f", "s", "t", "r", "e", "a", "m", " ">>, <<" ", "r", "i", "v", ".", " ">>,
      <<" ", "b", "a", "y", "o", "u", " ">>, <<" ", "c", "o", "u", "l", "e", "e", " ">>, <<" ", "f", "o", "r", "k", " ">>, <<" ", "r", "i", "a", "c", "h", "o", " ">>,
      <<" ", "r", "i", "b", "e", "i", "r", "a", "o", " ">>, <<" ", "r", "i", "b", "e", "i", "r", "o", " ">>, <<" ", "r", "i", "b", "e", "i", "r", "a", " ">>, <<" ", "r", "i", "v", "i", "e", "r", "e", " ">>
      >>,
    damname_similar_v2 |->
      <<
      <<" ", "l", "a", "k", "e", " ">>, <<" ", "d", "a", "m", " ">>, <<" ", "r", "e", "s", "e", "r", "v", "o", "i", "r", " ">>, <<" ", "b", "a", "r", "r", "a", "g", "e", " ">>,
      <<" ", "l", "a", "g", "o", " ">>, <<" ", "s", "h", "u", "i", "k", "u", " ">>, <<" ", "l", "a", "c", " ">>, <<" ", "p", "r", "e", "s", "a", " ">>,
      <<" ", "e", "m", "b", "a", "l", "s", "e", " ">>
      >> ]

\* the Roman numeral, the English word and the Arabic numeral of 1..20
numerals ==
  <<
     <<<<"i">>, <<"o", "n", "e">>, <<"1">>>>,
     <<<<"i", "i">>, <<"t", "w", "o">>, <<"2">>>>,
     <<<<"i", "i", "i">>, <<"t", "h", "r", "e", "e">>, <<"3">>>>,
     <<<<"i", "v">>, <<"f", "o", "u", "r">>, <<"4">>>>,
     <<<<"v">>, <<"f", "i", "v", "e">>, <<"5">>>>,
     <<<<"v", "i">>, <<"s", "i", "x">>, <<"6">>>>,
     <<<<"v", "i", "i">>, <<"s", "e", "v", "e", "n">>, <<"7">>>>,
     <<<<"v", "i", "i", "i">>, <<"e", "i", "g", "h", "t">>, <<"8">>>>,
     <<<<"i", "x">>, <<"n", "i", "n", "e">>, <<"9">>>>,
     <<<<"x">>, <<"t", "e", "n">>, <<"1", "0">>>>,
     <<<<"x", "i">>, <<"e", "l", "e", "v", "e", "n">>, <<"1", "1">>>>,
     <<<<"x", "i", "i">>, <<"t", "w", "e", "l", "v", "e">>, <<"1", "2">>>>,
     <<<<"x", "i", "i", "i">>, <<"t", "h", "i", "r", "t", "e", "e", "n">>, <<"1", "3">>>>,
     <<<<"x", "i", "v">>, <<"f", "o", "u", "r", "t", "e", "e", "n">>, <<"1", "4">>>>,
     <<<<"x", "v">>, <<"f", "i", "f", "t", "e", "e", "n">>, <<"1", "5">>>>,
     <<<<"x", "v", "i">>, <<"s", "i", "x", "t", "e", "e", "n">>, <<"1", "6">>>>,
     <<<<"x", "v", "i", "i">>, <<"s", "e", "v", "e", "n", "t", "e", "e", "n">>, <<"1", "7">>>>,
     <<<<"x", "v", "i", "i", "i">>, <<"e", "i", "g", "h", "t", "e", "e", "n">>, <<"1", "8">>>>,
     <<<<"x", "i", "x">>, <<"n", "i", "n", "e", "t", "e", "e", "n">>, <<"1", "9">>>>,
     <<<<"x", "x">>, <<"t", "w", "e", "n", "t", "y">>, <<"2", "0">>>>
  >>

\* the direction adjectives and letters of the second gate
directions ==
  {
     <<"e", "a", "s", "t">>, <<"w", "e", "s", "t">>, <<"n", "o", "r", "t", "h">>, <<"s", "o", "u", "t", "h">>, <<"u", "p", "p", "e", "r">>, <<"l", "o", "w", "e", "r">>,
     <<"a">>, <<"b">>, <<"c">>, <<"d">>, <<"a", "u", "x", "i", "l", "i", "a", "r">>, <<"a", "u", "x", "i", "l", "i", "a", "r", "y">>
  }

\* damname_similar: the words a token pair must avoid
\* river_similar: the words a token pair must avoid
\* damname_similar_v2: the words a token pair must avoid
stop_words ==
  [ google_dam |->
      {
      <<"m", "a", "i", "n">>, <<"t", "a", "n", "k">>, <<"d", "y", "k", "e">>, <<"c", "a", "n", "a", "l">>, <<"c", "a", "n", "y", "o", "n">>, <<"d", "i", "v", "e", "r", "s", "i", "o", "n">>,
      <<"c", "i", "t", "y">>, <<"t", "o", "w", "n">>, <<"f", "a", "l", "l">>, <<"f", "a", "l", "l", "s">>, <<"w", "e", "s", "t">>, <<"e", "a", "s", "t">>,
      <<"s", "o", "u", "t", "h">>, <<"n", "o", "r", "h", "t">>, <<"s", "t", "o", "r", "a", "g", "e">>, <<"r", "i", "v", "e", "r">>, <<"s", "a", "i", "n", "t">>, <<"k", "l", "o", "o", "f">>,
      <<"b", "e", "r", "g">>, <<"s", "a", "n", "t", "a">>, <<"v", "a", "l", "l", "e", "y">>, <<"u", "p", "p", "e", "r">>, <<"l", "o", "w", "e", "r">>, <<"c", "r", "e", "e", "k">>,
      <<"l", "a", "k", "e">>, <<"r", "e", "s", "e", "r", "v", "o", "i", "r">>, <<"l", "o", "c", "k">>, <<"b", "a", "r", "r", "a", "g", "e">>, <<"l", "a", "g", "o">>, <<"s", "h", "u", "i", "k", "u">>,
      <<"p", "r", "e", "s", "a">>, <<"e", "m", "b", "a", "l", "s", "e">>, <<"b", "a", "r", "r", "a", "g", "e", "m">>, <<"a", "g", "u", "a">>, <<"s", "t", "u", "w", "a", "l">>, <<"w", "e", "i", "r">>,
      <<"d", "i", "k", "e">>, <<"l", "e", "v", "e", "e">>, <<"m", "o", "u", "n", "t", "a", "i", "n">>, <<"h", "i", "l", "l">>, <<"a", "u", "x", "i", "l", "i", "a", "r">>, <<"a", "u", "x", "i", "l", "i", "a", "r", "y">>,
      <<"r", "i", "a", "c", "h", "o">>, <<"r", "i", "b", "e", "i", "r", "a", "o">>, <<"r", "i", "b", "e", "i", "r", "o">>, <<"r", "i", "b", "e", "i", "r", "a">>, <<"r", "i", "v", "i", "e", "r", "e">>
      },
    icold_dam |->
      {
      <<"m", "a", "i", "n">>, <<"t", "a", "n", "k">>, <<"d", "y", "k", "e">>, <<"c", "a", "n", "a", "l">>, <<"c", "a", "n", "y", "o", "n">>, <<"d", "i", "v", "e", "r", "s", "i", "o", "n">>,
      <<"c", "i", "t", "y">>, <<"t", "o", "w", "n">>, <<"f", "a", "l", "l">>, <<"f", "a", "l", "l", "s">>, <<"w", "e", "s", "t">>, <<"e", "a", "s", "t">>,
      <<"s", "o", "u", "t", "h">>, <<"n", "o", "r", "t", "h">>, <<"s", "t", "o", "r", "a", "g", "e">>, <<"r", "i", "v", "e", "r">>, <<"s", "a", "i", "n", "t">>, <<"k", "l", "o", "o", "f">>,
      <<"b", "e", "r", "g">>, <<"s", "a", "n", "t", "a">>, <<"v", "a", "l", "l", "e", "y">>, <<"u", "p", "p", "e", "r">>, <<"l", "o", "w", "e", "r">>, <<"c", "r", "e", "e", "k">>,
      <<"l", "a", "k", "e">>, <<"r", "e", "s", "e", "r", "v", "o", "i", "r">>, <<"l", "o", "c", "k">>, <<"b", "a", "r", "r", "a", "g", "e">>, <<"l", "a", "g", "o">>, <<"s", "h", "u", "i", "k", "u">>,
      <<"p", "r", "e", "s", "a">>, <<"e", "m", "b", "a", "l", "s", "e">>, <<"b", "a", "r", "r", "a", "g", "e", "m">>, <<"a", "g", "u", "a">>, <<"s", "t", "u", "w", "a", "l">>, <<"w", "e", "i", "r">>,
      <<"d", "i", "k", "e">>, <<"l", "e", "v", "e", "e">>, <<"m", "o", "u", "n", "t", "a", "i", "n">>, <<"h", "i", "l", "l">>, <<"a", "u", "x", "i", "l", "i", "a", "r">>, <<"a", "u", "x", "i", "l", "i", "a", "r", "y">>,
      <<"r", "i", "a", "c", "h", "o">>, <<"r", "i", "b", "e", "i", "r", "a", "o">>, <<"r", "i", "b", "e", "i", "r", "o">>, <<"r", "i", "b", "e", "i", "r", "a">>, <<"r", "i", "v", "i", "e", "r", "e">>
      },
    google_river |->
      {
      <<"m", "a", "i", "n">>, <<"t", "a", "n", "k">>, <<"d", "i", "v", "e", "r", "s", "i", "o", "n">>, <<"d", "i", "k", "e">>, <<"d", "y", "k", "e">>, <<"c", "a", "n", "a", "l">>,
      <<"c", "i", "t", "y">>, <<"t", "o", "w", "n">>, <<"f", "a", "l", "l">>, <<"f", "a", "l", "l", "s">>, <<"w", "e", "s", "t">>, <<"e", "a", "s", "t">>,
      <<"s", "o", "u", "t", "h">>, <<"n", "o", "r", "h", "t">>, <<"s", "a", "i", "n", "t">>, <<"k", "l", "o", "o", "f">>, <<"b", "e", "r", "g">>, <<"s", "a", "n", "t", "a">>,
      <<"v", "a", "l", "l", "e", "y">>, <<"u", "p", "p", "e", "r">>, <<"l", "o", "w", "e", "r">>, <<"r", "i", "v", "e", "r">>, <<"c", "r", "e", "e", "k">>, <<"s", "t", "r", "e", "a", "m">>,
      <<"b", "r", "o", "o", "k">>, <<"b", "r", "a", "n", "c", "h">>, <<"s", "l", "o", "u", "g", "h">>, <<"l", "a", "k", "e">>, <<"p", "o", "n", "d">>, <<"c", "a", "n", "y", "o", "n">>,
      <<"g", "u", "l", "c", "h">>, <<"t", "r", "i", "b", "u", "t", "a", "r", "y">>, <<"d", "r", "a", "i", "n">>, <<"d", "r", "a", "w">>, <<"c", "h", "a", "n", "n", "e", "l">>, <<"a", "r", "r", "o", "y", "o">>,
      <<"d", "i", "t", "c", "h">>, <<"o", "f", "f", "s", "t", "r", "e", "a", "m">>, <<"b", "a", "y", "o", "u">>, <<"c", "o", "u", "l", "e", "e">>, <<"f", "o", "r", "k">>, <<"m", "o", "u", "n", "t", "a", "i", "n">>,
      <<"h", "i", "l", "l">>, <<"a", "u", "x", "i", "l", "i", "a", "r">>, <<"a", "u", "x", "i", "l", "i", "a", "r", "y">>, <<"r", "i", "a", "c", "h", "o">>, <<"r", "i", "b", "e", "i", "r", "a", "o">>, <<"r", "i", "b", "e", "i", "r", "o">>,
      <<"r", "i", "b", "e", "i", "r", "a">>, <<"r", "i", "v", "i", "e", "r", "e">>
      },
    icold_river |->
      {
      <<"m", "a", "i", "n">>, <<"t", "a", "n", "k">>, <<"d", "i", "v", "e", "r", "s", "i", "o", "n">>, <<"d", "i", "k", "e">>, <<"d", "y", "k", "e">>, <<"c", "a", "n", "a", "l">>,
      <<"c", "i", "t", "y">>, <<"t", "o", "w", "n">>, <<"f", "a", "l", "l">>, <<"f", "a", "l", "l", "s">>, <<"w", "e", "s", "t">>, <<"e", "a", "s", "t">>,
      <<"s", "o", "u", "t", "h">>, <<"n", "o", "r", "t", "h">>, <<"s", "a", "i", "n", "t">>, <<"k", "l", "o", "o", "f">>, <<"b", "e", "r", "g">>, <<"s", "a", "n", "t", "a">>,
      <<"v", "a", "l", "l", "e", "y">>, <<"u", "p", "p", "e", "r">>, <<"l", "o", "w", "e", "r">>, <<"r", "i", "v", "e", "r">>, <<"c", "r", "e", "e", "k">>, <<"s", "t", "r", "e", "a", "m">>,
      <<"b", "r", "o", "o", "k">>, <<"b", "r", "a", "n", "c", "h">>, <<"s", "l", "o", "u", "g", "h">>, <<"l", "a", "k", "e">>, <<"p", "o", "n", "d">>, <<"c", "a", "n", "y", "o", "n">>,
      <<"g", "u", "l", "c", "h">>, <<"t", "r", "i", "b", "u", "t", "a", "r", "y">>, <<"d", "r", "a", "i", "n">>, <<"d", "r", "a", "w">>, <<"c", "h", "a", "n", "n", "e", "l">>, <<"a", "r", "r", "o", "y", "o">>,
      <<"d", "i", "t", "c", "h">>, <<"o", "f", "f", "s", "t", "r", "e", "a", "m">>, <<"b", "a", "y", "o", "u">>, <<"c", "o", "u", "l", "e", "e">>, <<"f", "o", "r", "k">>, <<"m", "o", "u", "n", "t", "a", "i", "n">>,
      <<"h", "i", "l", "l">>, <<"a", "u", "x", "i", "l", "i", "a", "r">>, <<"a", "u", "x", "i", "l", "i", "a", "r", "y">>, <<"r", "i", "a", "c", "h", "o">>, <<"r", "i", "b", "e", "i", "r", "a", "o">>, <<"r", "i", "b", "e", "i", "r", "o">>,
      <<"r", "i", "b", "e", "i", "r", "a">>, <<"r", "i", "v", "i", "e", "r", "e">>
      },
    google_v2 |->
      {
      <<"w", "e", "s", "t">>, <<"e", "a", "s", "t">>, <<"s", "o", "u", "t", "h">>, <<"n", "o", "r", "h", "t">>, <<"s", "t", "o", "r", "a", "g", "e">>
      },
    icold_v2 |->
      {
      <<"w", "e", "s", "t">>, <<"e", "a", "s", "t">>, <<"s", "o", "u", "t", "h">>, <<"n", "o", "r", "t", "h">>, <<"s", "t", "o", "r", "a", "g", "e">>
      } ]

(* ------------------------------------------------------------------ *)
(* Georeferencing_functions.py                                         *)
(* ------------------------------------------------------------------ *)

\* nfkd with the decomposition applied once and not to its own result
nfkd_single_step ==
  [c \in {"a_acute", "a_tilde", "c_cedilla", "e_acute", "superscript_2", "u_diaeresis", "u_diaeresis_acute"} |->
     CASE c = "a_acute" -> <<"a", "combining_acute">>
       [] c = "a_tilde" -> <<"a", "combining_tilde">>
       [] c = "c_cedilla" -> <<"c", "combining_cedilla">>
       [] c = "e_acute" -> <<"e", "combining_acute">>
       [] c = "superscript_2" -> <<"2">>
       [] c = "u_diaeresis" -> <<"u", "combining_diaeresis">>
       [] c = "u_diaeresis_acute" -> <<"u_diaeresis", "combining_acute">>]

\* unicodedata.normalize('NFKD', c) for the non-ASCII characters used here
nfkd ==
  [c \in {"a_acute", "a_tilde", "c_cedilla", "e_acute", "superscript_2", "u_diaeresis", "u_diaeresis_acute"} |->
     CASE c = "a_acute" -> <<"a", "combining_acute">>
       [] c = "a_tilde" -> <<"a", "combining_tilde">>
       [] c = "c_cedilla" -> <<"c", "combining_cedilla">>
       [] c = "e_acute" -> <<"e", "combining_acute">>
       [] c = "superscript_2" -> <<"2">>
       [] c = "u_diaeresis" -> <<"u", "combining_diaeresis">>
       [] c = "u_diaeresis_acute" -> <<"u", "combining_diaeresis", "combining_acute">>]

\* the characters for which unicodedata.combining(c) is non-zero
combining == {"combining_acute", "combining_tilde", "combining_cedilla", "combining_diaeresis"}

RECURSIVE Normalize(_)
Normalize(s) ==
  IF s = <<>> THEN <<>>
  ELSE (IF Head(s) \in DOMAIN nfkd THEN nfkd[Head(s)] ELSE <<Head(s)>>) \o Normalize(Tail(s))

remove_accents(input_str) == SelectSeq(Normalize(input_str), LAMBDA c : c \notin combining)

year_similar(ICOLD_year, registry_year) ==
  IF ~IsDigitStr(ICOLD_year) \/ ~IsDigitStr(registry_year) THEN 0
  ELSE LET Near(d) == IF d <= 1 /\ -d <= 1 THEN 10 ELSE 0
       IN Near(IntOf(ICOLD_year) - IntOf(registry_year))

\* '-999', '', '/', '-', '..', '_': the values that stand for a missing name
sentinels ==
  {<<"-", "9", "9", "9">>, <<>>, <<"/">>, <<"-">>, <<".", ".">>, <<"_">>}

unknown_prefixes ==
  {<<"u", "n", "k", "n", "o", "w", "n">>, <<"u", "n", "n", "a", "m", "e", "d">>,
   <<"u", "n", "-", "n", "a", "m", "e">>}

HasUnknownPrefix(s) == Len(s) >= 7 /\ Head_n(s, 7) \in unknown_prefixes

\* the parts of a name shared by two objects: split on '/' and on '\', '' dropped, stripped
SlashParts(s) ==
  LET Each(parts) == [k \in 1..Len(parts) |-> Strip(parts[k])]
  IN Each(Runs(s, {"/", "\\"}))

\* similar without the branch on '/' and '\': the whole strings are compared
similar_whole_strings(a0, b0) ==
  LET Compare(a, b) ==
        IF a \in sentinels \/ b \in sentinels THEN Ok(<<0, 1>>)
        ELSE IF HasUnknownPrefix(a) \/ HasUnknownPrefix(b) THEN Ok(<<0, 1>>)
        ELSE Ok(Ratio(a, b))
  IN Compare(Strip(Lower(a0)), Strip(Lower(b0)))

similar(a0, b0) ==
  LET Best(similar_value_array) ==
        IF similar_value_array = {} THEN Raise("ValueError")
        ELSE Ok(FracMax(similar_value_array))
      Pairs(AA_good, BB_good) ==
        Best({Ratio(AA_good[i], BB_good[j]) : i \in 1..Len(AA_good), j \in 1..Len(BB_good)})
      Compare(a, b) ==
        IF a \in sentinels \/ b \in sentinels THEN Ok(<<0, 1>>)
        ELSE IF HasUnknownPrefix(a) \/ HasUnknownPrefix(b) THEN Ok(<<0, 1>>)
        ELSE IF \E c \in {"/", "\\"} : c \in Range(a) \/ c \in Range(b)
             THEN Pairs(SlashParts(a), SlashParts(b))
             ELSE Ok(Ratio(a, b))
  IN Compare(Strip(Lower(a0)), Strip(Lower(b0)))

similar_v2(a, b) == Ratio(a, b)

\* the loop over to_be_removed from the lo-th to the hi-th title: each title present is
\* replaced by one space
RECURSIVE RemoveTitles(_, _, _, _)
RemoveTitles(s, titles, lo, hi) ==
  IF lo > hi THEN s
  ELSE IF lo = hi
  THEN (IF In(titles[lo], s) THEN Replace(s, titles[lo], <<" ">>) ELSE s)
  ELSE LET Later(left) ==
             IF left = <<>> THEN left
             ELSE RemoveTitles(left, titles, (lo + hi) \div 2 + 1, hi)
       IN Later(RemoveTitles(s, titles, lo, (lo + hi) \div 2))

\* remove_accents, pad with spaces, remove the titles (the list three times), strip
Simple(name, titles) ==
  Strip(RemoveTitles(<<" ">> \o remove_accents(name) \o <<" ">>, titles \o titles \o titles,
                     1, 3 * Len(titles)))

\* for China, a trailing 'shuiku' of a name longer than 8 is cut and the rest lower-cased
CutShuiku(s, iso) ==
  IF iso = <<"c", "n">> /\ Len(s) > 8 /\ Tail_n(s, 6) = <<"s", "h", "u", "i", "k", "u">>
  THEN Strip(Lower(SubSeq(s, 1, Len(s) - 6))) ELSE s

\* the nested split loops of damname_similar and river_similar
Splits(s) == Runs(s, {" ", "\t", ",", ".", "-", "/", "(", ")"})

\* the nested split loops of damname_similar_v2
Splits_v2(s) == Runs(s, {" ", "\t", ",", ".", "-", "/"})

\* ('i' in splits) or ('one' in splits), for the numeral n
HasNumeral(splits, n) == numerals[n][1] \in Range(splits) \/ numerals[n][2] \in Range(splits)

\* NumeralGate letting two names pass whenever both hold numbers in digits
NumeralGate_any_numbers(left, right, icold_spelling_splits, google_spelling_splits) ==
  LET N == 1..Len(numerals)
      Gate(numbers_left, numbers_right) ==
        IF Len(numbers_left) > 0 /\ Len(numbers_right) > 0 THEN 1
        ELSE IF Len(numbers_left) = 0 /\ Len(numbers_right) = 0
        THEN (IF \E n \in N :
                   \/ HasNumeral(icold_spelling_splits, n)
                      /\ ~HasNumeral(google_spelling_splits, n)
                   \/ HasNumeral(google_spelling_splits, n)
                      /\ ~HasNumeral(icold_spelling_splits, n)
              THEN 0 ELSE 1)
        ELSE IF Len(numbers_left) = 0 /\ Len(numbers_right) = 1
        THEN (IF \E n \in N : HasNumeral(icold_spelling_splits, n)
                               /\ numerals[n][3] \in Range(google_spelling_splits)
              THEN 1 ELSE 0)
        ELSE IF Len(numbers_left) = 1 /\ Len(numbers_right) = 0
        THEN (IF \E n \in N : HasNumeral(google_spelling_splits, n)
                               /\ numerals[n][3] \in Range(icold_spelling_splits)
              THEN 1 ELSE 0)
        ELSE 0
  IN Gate(FindAllDigits(left), FindAllDigits(right))

\* the gate on numerals: continue_or_not after the first if/elif chain
NumeralGate(left, right, icold_spelling_splits, google_spelling_splits) ==
  LET N == 1..Len(numerals)
      Gate(numbers_left, numbers_right) ==
        IF Len(numbers_left) > 0 /\ Len(numbers_right) > 0
        THEN (IF Range(numbers_left) \subseteq Range(numbers_right)
                 /\ Range(numbers_right) \subseteq Range(numbers_left) THEN 1 ELSE 0)
        ELSE IF Len(numbers_left) = 0 /\ Len(numbers_right) = 0
        THEN (IF \E n \in N :
                   \/ HasNumeral(icold_spelling_splits, n)
                      /\ ~HasNumeral(google_spelling_splits, n)
                   \/ HasNumeral(google_spelling_splits, n)
                      /\ ~HasNumeral(icold_spelling_splits, n)
              THEN 0 ELSE 1)
        ELSE IF Len(numbers_left) = 0 /\ Len(numbers_right) = 1
        THEN (IF \E n \in N : HasNumeral(icold_spelling_splits, n)
                               /\ numerals[n][3] \in Range(google_spelling_splits)
              THEN 1 ELSE 0)
        ELSE IF Len(numbers_left) = 1 /\ Len(numbers_right) = 0
        THEN (IF \E n \in N : HasNumeral(google_spelling_splits, n)
                               /\ numerals[n][3] \in Range(icold_spelling_splits)
              THEN 1 ELSE 0)
        ELSE 0
  IN Gate(FindAllDigits(left), FindAllDigits(right))

\* the gate on direction adjectives and letters: TRUE when it sets continue_or_not to 0
DirectionGate(icold_spelling_splits, google_spelling_splits) ==
  \E w \in directions :
     \/ w \in Range(icold_spelling_splits) /\ w \notin Range(google_spelling_splits)
     \/ w \in Range(google_spelling_splits) /\ w \notin Range(icold_spelling_splits)

continue_or_not(left, right, icold_spelling_splits, google_spelling_splits) ==
  IF DirectionGate(icold_spelling_splits, google_spelling_splits) THEN 0
  ELSE NumeralGate(left, right, icold_spelling_splits, google_spelling_splits)

\* x lies in y at its start or at its end, next to a space or a hyphen
ContainedAtEdge(x, y) ==
  LET Edge(f) ==
        IF f = 0 THEN At(y, f + Len(x)) \in {" ", "-"}
        ELSE IF f + Len(x) = Len(y) THEN At(y, f - 1) \in {" ", "-"}
        ELSE FALSE
  IN Edge(Find(y, x))

\* the containment relations: TRUE when they set the pass to 1
Containment(left, right) ==
  IF In(left, right) /\ left # right THEN ContainedAtEdge(left, right)
  ELSE IF In(right, left) /\ left # right THEN ContainedAtEdge(right, left)
  ELSE FALSE

\* the token-level comparison of damname_similar: the pairs in row-major order, from
\* pair k on; the result is the new pass_alt, or the exception similar() raised
RECURSIVE TokenScan(_, _, _, _, _, _, _)
TokenScan(similarity_t, L, R, stop_icold, stop_google, pass_alt, k) ==
  IF k >= Len(L) * Len(R) THEN [exc |-> "none", val |-> pass_alt]
  ELSE IF pass_alt = 1 /\ k >= Len(R) THEN [exc |-> "none", val |-> 1]
  ELSE LET Verdict(s, next) ==
             IF s.exc # "none" THEN [exc |-> s.exc, val |-> 0]
             ELSE IF FracGE(s.val, similarity_t) THEN [exc |-> "none", val |-> 1]
             ELSE next
           Pair(icold_split, google_split, next) ==
             IF Len(google_split) > 3 /\ Len(icold_split) > 3
                /\ google_split \notin stop_google /\ icold_split \notin stop_icold
             THEN Verdict(similar(icold_split, google_split), next)
             ELSE next
       IN Pair(L[(k \div Len(R)) + 1], R[(k % Len(R)) + 1],
               TokenScan(similarity_t, L, R, stop_icold, stop_google, pass_alt, k + 1))

\* the else-branch of one block of damname_similar, after the names are simplified:
\* st carries damname_similarity_pass and damname_similarity_pass_alt
CompareNames(similarity_t, left, right, google_spelling_splits, st) ==
  LET Tokens(scan) ==
        IF scan.exc # "none" THEN [st EXCEPT !.exc = scan.exc]
        ELSE [st EXCEPT !.alt = scan.val]
      Compare(icold_spelling_splits, similarity_value) ==
        IF similarity_value.exc # "none" THEN [st EXCEPT !.exc = similarity_value.exc]
        ELSE IF FracGE(similarity_value.val, similarity_t) THEN [st EXCEPT !.pass = 1]
        ELSE IF Containment(left, right) THEN [st EXCEPT !.pass = 1]
        ELSE Tokens(TokenScan(similarity_t, icold_spelling_splits, google_spelling_splits,
                              stop_words.icold_dam, stop_words.google_dam, st.alt, 0))
      Gate(icold_spelling_splits) ==
        IF continue_or_not(left, right, icold_spelling_splits, google_spelling_splits) = 0
        THEN [st EXCEPT !.pass = 0]
        ELSE IF left # <<>> /\ right # <<>>
        THEN Compare(icold_spelling_splits, similar(left, right))
        ELSE st
  IN Gate(Splits(left))

\* the first test of a block of damname_similar: a sentinel or an unknown-prefix name
Rejected(name, geocoded_name_input) ==
  \/ name \in sentinels \/ geocoded_name_input \in sentinels
  \/ HasUnknownPrefix(name) \/ HasUnknownPrefix(geocoded_name_input)

\* the block on dam_name_input: it alone assigns geocoded_name_input_simple and
\* google_spelling_splits (bound is TRUE once they are assigned)
DamBlock1(similarity_t, dam_name_input, geocoded_name_input, iso) ==
  LET st0 == [exc |-> "none", pass |-> 0, alt |-> 0, bound |-> FALSE]
      Compare(dam_name_input_simple, geocoded_name_input_simple) ==
        CompareNames(similarity_t, dam_name_input_simple, geocoded_name_input_simple,
                     Splits(geocoded_name_input_simple), [st0 EXCEPT !.bound = TRUE])
  IN IF Rejected(dam_name_input, geocoded_name_input) THEN st0
     ELSE IF geocoded_name_input = <<"n", "o", "t", " ", "f", "o", "u", "n", "d">> THEN [st0 EXCEPT !.pass = -1]
     ELSE Compare(CutShuiku(Simple(dam_name_input, to_be_removed.damname_similar), iso),
                  CutShuiku(Simple(geocoded_name_input, to_be_removed.damname_similar), iso))

\* the blocks on other_dam_name_input and on reservoir_name_input: they read the
\* geocoded_name_input_simple the first block assigned
DamBlockN(similarity_t, name, geocoded_name_input, iso, st) ==
  LET Compare(dam_name_input_simple, geocoded_name_input_simple) ==
        CompareNames(similarity_t, dam_name_input_simple, geocoded_name_input_simple,
                     Splits(geocoded_name_input_simple), st)
  IN IF st.exc # "none" \/ st.pass = 1 THEN st
     ELSE IF Rejected(name, geocoded_name_input) THEN [st EXCEPT !.pass = 0]
     ELSE IF geocoded_name_input = <<"n", "o", "t", " ", "f", "o", "u", "n", "d">> THEN [st EXCEPT !.pass = -1]
     ELSE IF ~st.bound THEN [st EXCEPT !.exc = "UnboundLocalError"]
     ELSE Compare(CutShuiku(Simple(name, to_be_removed.damname_similar), iso),
                  CutShuiku(Simple(geocoded_name_input, to_be_removed.damname_similar), iso))

damname_similar(similarity_t, dam_name_input, other_dam_name_input, reservoir_name_input, geocoded_name_input, this_country_ISO_input) ==
  LET Return(st) ==
        IF st.exc # "none" THEN [exc |-> st.exc, val |-> 0]
        ELSE IF st.pass = 1 THEN [exc |-> "none", val |-> 10]
        ELSE IF st.alt = 1 THEN [exc |-> "none", val |-> 5]
        ELSE [exc |-> "none", val |-> 0]
  IN Return(DamBlockN(similarity_t, reservoir_name_input, geocoded_name_input,
                      this_country_ISO_input,
              DamBlockN(similarity_t, other_dam_name_input, geocoded_name_input,
                        this_country_ISO_input,
                DamBlock1(similarity_t, dam_name_input, geocoded_name_input,
                          this_country_ISO_input))))

river_similar(similarity_t, ICOLD_river, registry_river) ==
  LET Tokens(scan) ==
        IF scan.exc # "none" THEN [exc |-> scan.exc, val |-> 0]
        ELSE IF scan.val = 1 THEN [exc |-> "none", val |-> 5]
        ELSE [exc |-> "none", val |-> 0]
      Compare(ICOLD_river_simple, registry_river_simple, icold_spelling_splits,
              google_spelling_splits, similarity_value, go) ==
        IF similarity_value.exc # "none" THEN [exc |-> similarity_value.exc, val |-> 0]
        ELSE IF FracGE(similarity_value.val, similarity_t) /\ go THEN [exc |-> "none", val |-> 10]
        ELSE IF ICOLD_river_simple = <<>> \/ registry_river_simple = <<>> \/ ~go
        THEN [exc |-> "none", val |-> 0]
        ELSE IF Containment(ICOLD_river_simple, registry_river_simple)
        THEN [exc |-> "none", val |-> 10]
        ELSE Tokens(TokenScan(similarity_t, icold_spelling_splits, google_spelling_splits,
                              stop_words.icold_river, stop_words.google_river, 0, 0))
      Gate(ICOLD_river_simple, registry_river_simple, icold_spelling_splits,
           google_spelling_splits) ==
        Compare(ICOLD_river_simple, registry_river_simple, icold_spelling_splits,
                google_spelling_splits, similar(ICOLD_river_simple, registry_river_simple),
                continue_or_not(ICOLD_river_simple, registry_river_simple,
                                icold_spelling_splits, google_spelling_splits) = 1)
      Split(ICOLD_river_simple, registry_river_simple) ==
        Gate(ICOLD_river_simple, registry_river_simple, Splits(ICOLD_river_simple),
             Splits(registry_river_simple))
  IN IF Rejected(ICOLD_river, registry_river) \/ registry_river = <<"s", "e", "m", " ", "d", "e", "n", "o", "m", "i", "n", "a", "c_cedilla", "a_tilde", "o">>
     THEN [exc |-> "none", val |-> 0]
     ELSE Split(Simple(ICOLD_river, to_be_removed.river_similar), Simple(registry_river, to_be_removed.river_similar))

\* the token-level comparison of damname_similar_v2: TRUE when a pair passes
TokenScan_v2(similarity_t, L, R) ==
  \E i \in 1..Len(L), j \in 1..Len(R) :
     /\ Len(R[j]) > 3 /\ Len(L[i]) > 3
     /\ R[j] \notin stop_words.google_v2 /\ L[i] \notin stop_words.icold_v2
     /\ FracGE(similar_v2(L[i], R[j]), similarity_t)

\* the else-branch of one block of damname_similar_v2, after the names are simplified
CompareNames_v2(similarity_t, left, right, st) ==
  IF FracGE(similar_v2(left, right), similarity_t) THEN [st EXCEPT !.pass = 1]
  ELSE IF Containment(left, right) THEN [st EXCEPT !.pass = 1]
  ELSE IF TokenScan_v2(similarity_t, Splits_v2(left), Splits_v2(right)) THEN [st EXCEPT !.pass = 1]
  ELSE st

\* the block on dam_name_input: it alone assigns geocoded_name_input_simple
Block1_v2(similarity_t, dam_name_input, geocoded_name_input, iso) ==
  LET st0 == [exc |-> "none", pass |-> 0, bound |-> FALSE]
  IN IF dam_name_input = <<>> \/ geocoded_name_input = <<>> THEN st0
     ELSE IF geocoded_name_input = <<"n", "o", "t", " ", "f", "o", "u", "n", "d">> THEN [st0 EXCEPT !.pass = -1]
     ELSE CompareNames_v2(similarity_t, CutShuiku(Simple(dam_name_input, to_be_removed.damname_similar_v2), iso),
                          CutShuiku(Simple(geocoded_name_input, to_be_removed.damname_similar_v2), iso),
                          [st0 EXCEPT !.bound = TRUE])

\* the blocks on other_dam_name_input and on reservoir_name_input
BlockN_v2(similarity_t, name, geocoded_name_input, iso, st) ==
  IF st.exc # "none" \/ st.pass = 1 THEN st
  ELSE IF name = <<>> \/ geocoded_name_input = <<>> THEN [st EXCEPT !.pass = 0]
  ELSE IF geocoded_name_input = <<"n", "o", "t", " ", "f", "o", "u", "n", "d">> THEN [st EXCEPT !.pass = -1]
  ELSE IF ~st.bound THEN [st EXCEPT !.exc = "UnboundLocalError"]
  ELSE CompareNames_v2(similarity_t, CutShuiku(Simple(name, to_be_removed.damname_similar_v2), iso),
                       CutShuiku(Simple(geocoded_name_input, to_be_removed.damname_similar_v2), iso), st)

damname_similar_v2(similarity_t, dam_name_input, other_dam_name_input, reservoir_name_input, geocoded_name_input, this_country_ISO_input) ==
  LET Return(st) ==
        IF st.exc # "none" THEN [exc |-> st.exc, val |-> 0]
        ELSE [exc |-> "none", val |-> 10 * st.pass]
  IN Return(BlockN_v2(similarity_t, reservoir_name_input, geocoded_name_input,
                      this_country_ISO_input,
              BlockN_v2(similarity_t, other_dam_name_input, geocoded_name_input,
                        this_country_ISO_input,
                Block1_v2(similarity_t, dam_name_input, geocoded_name_input,
                          this_country_ISO_input))))

(* ------------------------------------------------------------------ *)
(* Geocoding_QA.py: the address scenarios of a WRD record              *)
(* ------------------------------------------------------------------ *)

similarity_threshold_QA == <<5, 6>>

\* name[-k:] == ' w' or name[:k] == 'w ' or (' w ' in name)
HasTitle(name, w) ==
  \/ Tail_n(name, Len(w) + 1) = <<" ">> \o w
  \/ Head_n(name, Len(w) + 1) = w \o <<" ">>
  \/ In(<<" ">> \o w \o <<" ">>, name)

reservoir_norm(reservoir_name) ==
  IF Len(reservoir_name) > 10
  THEN (IF HasTitle(reservoir_name, <<"r", "e", "s", "e", "r", "v", "o", "i", "r">>) THEN 0
        ELSE IF HasTitle(reservoir_name, <<"l", "a", "k", "e">>) THEN 0 ELSE 1)
  ELSE IF Len(reservoir_name) > 5
  THEN (IF HasTitle(reservoir_name, <<"l", "a", "k", "e">>) THEN 0 ELSE 1)
  ELSE 1

dam_norm(dam_name) == IF Len(dam_name) > 4 /\ HasTitle(dam_name, <<"d", "a", "m">>) THEN 0 ELSE 1

\* the US state names and their ISO codes
state_NAME_array == << <<"k", "a", "n", "s", "a", "s">>, <<"t", "e", "x", "a", "s">> >>
state_ISO_array == << <<"k", "s">>, <<"t", "x">> >>

state_province_addr(state_province, this_country_ISO) ==
  LET Code(state_index) ==
        IF this_country_ISO = <<"u", "s">> /\ state_index # {} THEN state_ISO_array[SetMin(state_index)]
        ELSE state_province
  IN Code({i \in 1..Len(state_NAME_array) : state_NAME_array[i] = state_province})

\* a scenario with the state, when the record has one, followed by the one without
WithState(name, rec) ==
  IF rec.state_province # <<>>
  THEN << <<name, state_province_addr(rec.state_province, rec.this_country_ISO)>>, <<name>> >>
  ELSE << <<name>> >>

\* the scenarios of one name under its title: the name itself when it carries the title
Titled(name, norm, title, rec) ==
  IF norm = 0 THEN WithState(name, rec) ELSE WithState(name \o <<" ">> \o title, rec)

\* the scenarios appended under "if norm == 1"
IfNorm(norm, scenarios) == IF norm = 1 THEN scenarios ELSE <<>>

\* the scenarios of a record that has one name only
OneName(name, norm, first, second, rec) ==
  IF norm = 0 THEN WithState(name, rec)
  ELSE WithState(name \o <<" ">> \o first, rec) \o WithState(name \o <<" ">> \o second, rec)
       \o WithState(name \o <<" ">> \o <<"l", "a", "k", "e">>, rec) \o << <<name>> >>

Sc_list(rec) ==
  LET Scenarios(d, o, r, dn, on, rn) ==
        IF d = <<>> /\ o = <<>> THEN OneName(r, rn, <<"r", "e", "s", "e", "r", "v", "o", "i", "r">>, <<"d", "a", "m">>, rec)
        ELSE IF d = <<>> /\ r = <<>> THEN OneName(o, on, <<"d", "a", "m">>, <<"r", "e", "s", "e", "r", "v", "o", "i", "r">>, rec)
        ELSE IF o = <<>> /\ r = <<>> THEN OneName(d, dn, <<"d", "a", "m">>, <<"r", "e", "s", "e", "r", "v", "o", "i", "r">>, rec)
        ELSE IF r = <<>>
        THEN Titled(d, dn, <<"d", "a", "m">>, rec) \o Titled(o, on, <<"d", "a", "m">>, rec)
             \o IfNorm(dn, WithState(d \o <<" ">> \o <<"r", "e", "s", "e", "r", "v", "o", "i", "r">>, rec))
             \o IfNorm(on, WithState(o \o <<" ">> \o <<"r", "e", "s", "e", "r", "v", "o", "i", "r">>, rec))
             \o IfNorm(dn, WithState(d \o <<" ">> \o <<"l", "a", "k", "e">>, rec))
             \o IfNorm(on, WithState(o \o <<" ">> \o <<"l", "a", "k", "e">>, rec))
             \o IfNorm(dn, << <<d>> >>) \o IfNorm(on, << <<o>> >>)
        ELSE IF o = <<>>
        THEN Titled(d, dn, <<"d", "a", "m">>, rec) \o Titled(r, rn, <<"r", "e", "s", "e", "r", "v", "o", "i", "r">>, rec)
             \o IfNorm(dn, WithState(d \o <<" ">> \o <<"r", "e", "s", "e", "r", "v", "o", "i", "r">>, rec))
             \o IfNorm(rn, WithState(r \o <<" ">> \o <<"d", "a", "m">>, rec)
                           \o WithState(r \o <<" ">> \o <<"l", "a", "k", "e">>, rec))
             \o IfNorm(dn, WithState(d \o <<" ">> \o <<"l", "a", "k", "e">>, rec) \o << <<d>> >>)
             \o IfNorm(rn, << <<r>> >>)
        ELSE IF d = <<>>
        THEN Titled(o, on, <<"d", "a", "m">>, rec) \o Titled(r, rn, <<"r", "e", "s", "e", "r", "v", "o", "i", "r">>, rec)
             \o IfNorm(on, WithState(o \o <<" ">> \o <<"r", "e", "s", "e", "r", "v", "o", "i", "r">>, rec))
             \o IfNorm(rn, WithState(r \o <<" ">> \o <<"d", "a", "m">>, rec)
                           \o WithState(r \o <<" ">> \o <<"l", "a", "k", "e">>, rec))
             \o IfNorm(on, WithState(o \o <<" ">> \o <<"l", "a", "k", "e">>, rec) \o << <<o>> >>)
             \o IfNorm(rn, << <<r>> >>)
        ELSE Titled(d, dn, <<"d", "a", "m">>, rec) \o Titled(o, on, <<"d", "a", "m">>, rec)
             \o Titled(r, rn, <<"r", "e", "s", "e", "r", "v", "o", "i", "r">>, rec)
             \o IfNorm(dn, WithState(d \o <<" ">> \o <<"r", "e", "s", "e", "r", "v", "o", "i", "r">>, rec))
             \o IfNorm(on, WithState(o \o <<" ">> \o <<"r", "e", "s", "e", "r", "v", "o", "i", "r">>, rec))
             \o IfNorm(rn, WithState(r \o <<" ">> \o <<"d", "a", "m">>, rec)
                           \o WithState(r \o <<" ">> \o <<"l", "a", "k", "e">>, rec))
             \o IfNorm(dn, WithState(d \o <<" ">> \o <<"l", "a", "k", "e">>, rec))
             \o IfNorm(on, WithState(o \o <<" ">> \o <<"l", "a", "k", "e">>, rec))
             \o IfNorm(dn, << <<d>> >>) \o IfNorm(on, << <<o>> >>) \o IfNorm(rn, << <<r>> >>)
  IN Scenarios(rec.dam_name, rec.dam_other_name, rec.reservoir_name,
               dam_norm(rec.dam_name), dam_norm(rec.dam_other_name),
               reservoir_norm(rec.reservoir_name))

\* the elements of a scenario that are not blank, each followed by ', ', less the last ', '
RECURSIVE JoinFrom(_, _)
JoinFrom(this_scenario, k) ==
  IF k > Len(this_scenario) THEN <<>>
  ELSE (IF this_scenario[k] # <<>> THEN this_scenario[k] \o <<",", " ">> ELSE <<>>)
       \o JoinFrom(this_scenario, k + 1)

text_encoded_addr(this_scenario) ==
  LET Cut(joined) == IF Len(joined) <= 2 THEN <<>> ELSE SubSeq(joined, 1, Len(joined) - 2)
  IN Cut(JoinFrom(this_scenario, 1))

\* the characters urllib.parse.quote leaves as they are
quote_safe ==
  {"a","b","c","d","e","f","g","h","i","j","k","l","m","n","o","p","q","r","s","t","u",
   "v","w","x","y","z","0","1","2","3","4","5","6","7","8","9","_",".","-","~","/"}
  \cup DOMAIN UpperToLower

\* the percent-encoding of the other characters used here
quote_other ==
  [c \in {" ", ",", "(", ")", "#", "&", "=", ":"} |->
     CASE c = " " -> <<"%", "2", "0">> [] c = "," -> <<"%", "2", "C">>
       [] c = "(" -> <<"%", "2", "8">> [] c = ")" -> <<"%", "2", "9">>
       [] c = "#" -> <<"%", "2", "3">> [] c = "&" -> <<"%", "2", "6">>
       [] c = "=" -> <<"%", "3", "D">> [] c = ":" -> <<"%", "3", "A">>]

\* urllib.parse.quote(s)
RECURSIVE quote(_)
quote(s) ==
  IF s = <<>> THEN <<>>
  ELSE (IF Head(s) \in quote_safe THEN <<Head(s)>> ELSE quote_other[Head(s)]) \o quote(Tail(s))

administrative_components(this_country_ISO) == <<"c", "o", "u", "n", "t", "r", "y", ":">> \o quote(this_country_ISO)

\* the address of a scenario as it is sent to the geocoder, with or without the country
encoded_addr(text, restricted, this_country_ISO) ==
  IF restricted THEN quote(text) \o <<"&", "c", "o", "m", "p", "o", "n", "e", "n", "t", "s", "=">> \o administrative_components(this_country_ISO)
  ELSE quote(text)

\* Sc_list_cleaned outside China: the text address of each scenario
Sc_list_cleaned(rec) ==
  LET Clean(Sc) == [k \in 1..Len(Sc) |-> text_encoded_addr(Sc[k])]
  IN Clean(Sc_list(rec))

\* Sc_list_cleaned for China: Sc_list is doubled, and the list holds the encoded address of
\* each scenario with the country, then of each scenario without it
Sc_list_cleaned_cn(rec) ==
  LET Clean(Sc) ==
        [k \in 1..Len(Sc) |-> encoded_addr(text_encoded_addr(Sc[k]), TRUE, rec.this_country_ISO)]
        \o [k \in 1..Len(Sc) |-> encoded_addr(text_encoded_addr(Sc[k]), FALSE, rec.this_country_ISO)]
  IN Clean(Sc_list(rec))

(* ------------------------------------------------------------------ *)
(* Geocoding_QA.py: the QA rank of the geocoded rows of a WRD record   *)
(* ------------------------------------------------------------------ *)

\* a match scenario is the label of column 83, word by word
match_scenarios ==
  [ in_state_in_town |->
      {<<"in-country", "in-state", "in-town">>, <<"in-country", "in-state", "in-town-2">>,
      <<"in-country", "in-state-2", "in-town">>, <<"in-country", "in-state-2", "in-town-2">>},
    in_state_unknown_town |->
      {<<"in-country", "in-state", "unknown-town">>, <<"in-country", "in-state-2", "unknown-town">>},
    in_state_out_town |->
      {<<"in-country", "in-state", "out-town">>, <<"in-country", "in-state-2", "out-town">>},
    unknown_state_in_town |->
      {<<"in-country", "unknown-state", "in-town">>, <<"in-country", "unknown-state", "in-town-2">>},
    out_state_in_town |->
      {<<"in-country", "out-state", "in-town">>, <<"in-country", "out-state", "in-town-2">>},
    unknown_state_no_town |->
      {<<"in-country", "unknown-state", "out-town">>, <<"in-country", "unknown-state", "unknown-town">>},
    out_state_no_town |->
      {<<"in-country", "out-state", "out-town">>, <<"in-country", "out-state", "unknown-town">>} ]

Tier(rank, match, scenarios, country) ==
  [QA_rank |-> rank, match |-> match, scenarios |-> scenarios, country |-> country]

\* the first tier, whose rank and scenarios depend on what the record states
first_tier(rec) ==
  IF rec.state_province # <<>> /\ rec.town_original # <<>>
  THEN Tier(10, "complete-match", match_scenarios.in_state_in_town, "")
  ELSE IF rec.state_province # <<>>
  THEN Tier(11, "complete-match", match_scenarios.in_state_unknown_town, "")
  ELSE IF rec.town_original # <<>>
  THEN Tier(11, "complete-match", match_scenarios.unknown_state_in_town, "")
  ELSE Tier(12, "complete-match", {<<"in-country", "unknown-state", "unknown-town">>}, "")

\* the tiers tried after the first one, each under "if good_passed == 0"
later_tiers ==
  << Tier(15, "partial-match", match_scenarios.in_state_in_town, ""),
     Tier(20, "complete-match", match_scenarios.in_state_out_town \cup match_scenarios.in_state_unknown_town, ""),
     Tier(25, "partial-match", match_scenarios.in_state_out_town \cup match_scenarios.in_state_unknown_town, ""),
     Tier(30, "complete-match", match_scenarios.unknown_state_in_town, ""),
     Tier(35, "partial-match", match_scenarios.unknown_state_in_town, ""),
     Tier(40, "complete-match", match_scenarios.out_state_in_town, ""),
     Tier(45, "partial-match", match_scenarios.out_state_in_town, ""),
     Tier(50, "complete-match", match_scenarios.unknown_state_no_town, ""),
     Tier(55, "partial-match", match_scenarios.unknown_state_no_town, ""),
     Tier(60, "complete-match", match_scenarios.out_state_no_town, ""),
     Tier(65, "partial-match", match_scenarios.out_state_no_town, ""),
     Tier(70, "complete-match", {}, "unknown-country"),
     Tier(75, "partial-match", {}, "unknown-country"),
     Tier(80, "complete-match", {}, "out-country"),
     Tier(85, "partial-match", {}, "out-country") >>

tiers(rec) == <<first_tier(rec)>> \o later_tiers

\* x is one of the scenarios of the tier, or x starts with the tier's country word
InTier(x, tier) == IF tier.country # "" THEN x[1] = tier.country ELSE x \in tier.scenarios

\* the elements of a set of numbers in increasing order
RECURSIVE Ascending(_)
Ascending(S) == IF S = {} THEN <<>> ELSE <<SetMin(S)>> \o Ascending(S \ {SetMin(S)})

\* list(set(GOOD_ICOLDID_indices_1) & set(GOOD_ICOLDID_indices_2)): CPython lists a
\* set of small integers in increasing order
GOOD_ICOLDID_indices(local, tier) ==
  Ascending({i \in 1..Len(local) : local[i].match = tier.match /\ InTier(local[i].scenario, tier)})

\* GOOD_local_addresses_rank without the 0.1 added for an address sent without the country
GOOD_local_addresses_rank_no_offset(rec, row) ==
  LET First(rank_index) ==
        IF rank_index = {} THEN [exc |-> "IndexError", val |-> 0]
        ELSE [exc |-> "none", val |-> 10 * (SetMin(rank_index) - 1)]
      Index(cleaned) == First({k \in 1..Len(cleaned) : cleaned[k] = row.text_addr})
  IN Index(Sc_list_cleaned(rec))

\* rank_index[0], and the 0.1 that lowers an address sent without the country
GOOD_local_addresses_rank(rec, row) ==
  LET First(rank_index) ==
        IF rank_index = {} THEN [exc |-> "IndexError", val |-> 0]
        ELSE IF In(<<"&", "c", "o", "m", "p", "o", "n", "e", "n", "t", "s", "=">> \o <<"c", "o", "u", "n", "t", "r", "y", ":">>, row.encoded_addr)
        THEN [exc |-> "none", val |-> 10 * (SetMin(rank_index) - 1)]
        ELSE [exc |-> "none", val |-> 10 * (SetMin(rank_index) - 1) + 1]
      Index(cleaned) == First({k \in 1..Len(cleaned) : cleaned[k] = row.text_addr})
  IN Index(Sc_list_cleaned(rec))

\* rank_index[0] in the branch for China, where the encoded address is looked up
GOOD_local_addresses_rank_cn(rec, row) ==
  LET First(rank_index) ==
        IF rank_index = {} THEN [exc |-> "IndexError", val |-> 0]
        ELSE [exc |-> "none", val |-> 10 * (SetMin(rank_index) - 1)]
      Index(cleaned) == First({k \in 1..Len(cleaned) : cleaned[k] = row.encoded_addr})
  IN Index(Sc_list_cleaned_cn(rec))

GOOD_local_dam_name_pass(rec, row) ==
  damname_similar_v2(similarity_threshold_QA, rec.dam_name, rec.dam_other_name,
                     rec.reservoir_name, Strip(Lower(row.geocoded_name)), rec.this_country_ISO)

\* the loop over GOOD_ICOLDID_indices from the k-th index on: the rank of the address
\* and the name verdict of each row
RECURSIVE Ranked(_, _, _, _)
Ranked(rec, local, GOOD, k) ==
  IF k > Len(GOOD) THEN <<>>
  ELSE <<[rank |-> IF rec.this_country_ISO # <<"c", "n">>
                   THEN GOOD_local_addresses_rank(rec, local[GOOD[k]])
                   ELSE GOOD_local_addresses_rank_cn(rec, local[GOOD[k]]),
          pass |-> GOOD_local_dam_name_pass(rec, local[GOOD[k]])]>>
       \o Ranked(rec, local, GOOD, k + 1)

\* one tier: the rank and the name verdict of each row the tier keeps, then the row
\* written, which is the first one in sorted(rank) order whose name passes; hit is 0
\* when the tier keeps no row or no name passes
TryTier(rec, local, tier) ==
  LET Pick(GOOD, e, raised, passing) ==
        IF raised # {}
        THEN [exc |-> IF e[SetMin(raised)].rank.exc # "none" THEN e[SetMin(raised)].rank.exc
                      ELSE e[SetMin(raised)].pass.exc,
              hit |-> 0]
        ELSE IF passing = {} THEN [exc |-> "none", hit |-> 0]
        ELSE [exc |-> "none",
              hit |-> GOOD[CHOOSE k \in passing : \A j \in passing :
                             \/ e[k].rank.val < e[j].rank.val
                             \/ e[k].rank.val = e[j].rank.val /\ k <= j]]
      Sorted(GOOD, e) ==
        Pick(GOOD, e,
             {k \in 1..Len(GOOD) : e[k].rank.exc # "none" \/ e[k].pass.exc # "none"},
             {k \in 1..Len(GOOD) : e[k].pass.val = 10})
      Loop(GOOD) == Sorted(GOOD, Ranked(rec, local, GOOD, 1))
  IN Loop(GOOD_ICOLDID_indices(local, tier))

\* the tiers from the t-th on, while good_passed is 0; QA_rank 90 when none is satisfied
RECURSIVE ScanTiers(_, _, _, _)
ScanTiers(rec, local, ts, t) ==
  IF t > Len(ts) THEN [exc |-> "none", QA_rank |-> 90, hit |-> 0]
  ELSE LET Step(try) ==
             IF try.exc # "none" THEN [exc |-> try.exc, QA_rank |-> ts[t].QA_rank, hit |-> 0]
             ELSE IF try.hit # 0
             THEN [exc |-> "none", QA_rank |-> ts[t].QA_rank, hit |-> try.hit]
             ELSE ScanTiers(rec, local, ts, t + 1)
       IN Step(TryTier(rec, local, ts[t]))

\* rank writing the first row of the ICOLD ID when no tier is satisfied
rank_first_row(rec, rows, this_ICOLDID) ==
  LET Written(same_ICOLDID_indices, scan) ==
        [exc |-> scan.exc, QA_rank |-> scan.QA_rank,
         final_index |-> IF scan.hit = 0 THEN same_ICOLDID_indices[1]
                         ELSE same_ICOLDID_indices[scan.hit]]
      Local(same_ICOLDID_indices) ==
        Written(same_ICOLDID_indices,
                ScanTiers(rec, [k \in 1..Len(same_ICOLDID_indices) |->
                                  rows[same_ICOLDID_indices[k]]], tiers(rec), 1))
  IN Local(Ascending({i \in 1..Len(rows) : rows[i].ICOLDID = this_ICOLDID}))

\* the evaluation of one WRD record against the rows of the file: final_index is the
\* index in the file of the row written, 0 when none is
rank(rec, rows, this_ICOLDID) ==
  LET Written(same_ICOLDID_indices, scan) ==
        [exc |-> scan.exc, QA_rank |-> scan.QA_rank,
         final_index |-> IF scan.hit = 0 THEN 0 ELSE same_ICOLDID_indices[scan.hit]]
      Local(same_ICOLDID_indices) ==
        Written(same_ICOLDID_indices,
                ScanTiers(rec, [k \in 1..Len(same_ICOLDID_indices) |->
                                  rows[same_ICOLDID_indices[k]]], tiers(rec), 1))
  IN Local(Ascending({i \in 1..Len(rows) : rows[i].ICOLDID = this_ICOLDID}))

(* ------------------------------------------------------------------ *)
(* The state of a run of one of the scripts                            *)
(* ------------------------------------------------------------------ *)

\* Numbers with one decimal are kept as ten times their value: the QA ranks 1, 1.1,
\* 1.2, 1.5, ..., 8.5, 9 are 10, 11, 12, 15, ..., 85, 90, and the values 0, 0.5, 1 and
\* -1 of the name and river comparisons are 0, 5, 10 and -10.

VARIABLES
  script,          \* the script that runs, or "functions" for one call of a function
  raised,          \* the exception that ended the script, "none" while there is none
  closed,          \* the output workbook has been closed, which saves it
  infile_rows,     \* the data rows of the input sheet; the header row is row 0
  ii,              \* the index of the row the loop is at
  considered_IDs,  \* Geocoding_QA, Geocoding_ICOLD: the ICOLD IDs already evaluated
  outfile_sheet,   \* Geocoding_QA: the rows written so far
  QA_rank,         \* Geocoding_QA: the rank last assigned
  registry,        \* Geomatching_ICOLD: the rows of the register
  reg_i,           \* Geomatching_ICOLD: the index of the register row the inner loop is at
  QA_mark,         \* Geomatching_ICOLD: 1 once the optimal level M1:1 is reached
  reg_i_QA_array,  \* Geomatching_ICOLD: the register rows kept under each QA level
  OUT_sheet,       \* Geomatching_ICOLD: the rows written so far
  call,            \* functions: the function called and its arguments
  result,          \* functions: what the call returned or raised
  success,         \* Geocoding_ICOLD: "Yes" once the best possible solution is written
  match_scenario_array, \* Geocoding_ICOLD: the scenarios of the solutions of the record
  geodata,         \* Geocoding_ICOLD: what the geocoder answered for the last record, load by load
  geocoded_sheet,  \* Geocoding_ICOLD: the rows of outfile_sheet written so far
  Dams,            \* Reservoirs_retrieval: the dam points
  Lakes,           \* Reservoirs_retrieval: the lakes within 500 m of a dam
  Lakes2,          \* Reservoirs_retrieval: the lakes within 1000 m of a dam, with their dams
  Dams_others,     \* Reservoirs_retrieval: the dams round 1 left unpaired
  DAM_officialID_FOR_this_LAKE, \* Reservoirs_retrieval: the dam of each lake of the last round
  rounds,          \* Reservoirs_retrieval: the rounds completed
  matched_lakes,   \* Reservoirs_retrieval: the lakes exported with their dams
  notmatched_dams  \* Reservoirs_retrieval: the dams exported as unpaired

vars ==
  <<script, raised, closed, infile_rows, ii, considered_IDs, outfile_sheet, QA_rank,
    registry, reg_i, QA_mark, reg_i_QA_array, OUT_sheet, call, result,
    success, match_scenario_array, geodata, geocoded_sheet,
    Dams, Lakes, Lakes2, Dams_others, DAM_officialID_FOR_this_LAKE, rounds, matched_lakes,
    notmatched_dams>>

\* the variables of Geocoding_ICOLD alone
geocoding == <<success, match_scenario_array, geodata, geocoded_sheet>>

\* the variables of Reservoirs_retrieval alone
retrieval ==
  <<Dams, Lakes, Lakes2, Dams_others, DAM_officialID_FOR_this_LAKE, rounds, matched_lakes,
    notmatched_dams>>

\* what the variables of the other scripts hold while one script runs
Idle ==
  /\ IF script \in {"Geocoding_QA", "Geocoding_ICOLD"} THEN TRUE ELSE considered_IDs = <<>>
  /\ IF script = "Geocoding_QA" THEN TRUE ELSE outfile_sheet = <<>> /\ QA_rank = 0
  /\ IF script = "Geocoding_ICOLD" THEN TRUE
     ELSE /\ success = "No" /\ match_scenario_array = <<>> /\ geodata = <<>>
          /\ geocoded_sheet = <<>>
  /\ IF script = "Reservoirs_retrieval" THEN TRUE
     ELSE /\ Dams = <<>> /\ Lakes = <<>> /\ Lakes2 = <<>> /\ Dams_others = <<>>
          /\ DAM_officialID_FOR_this_LAKE = <<>> /\ rounds = 0
          /\ matched_lakes = <<>> /\ notmatched_dams = <<>>
  /\ IF script = "Geomatching_ICOLD" THEN TRUE
     ELSE /\ registry = <<>> /\ reg_i = 0 /\ QA_mark = 0
          /\ reg_i_QA_array = [level \in {} |-> <<>>] /\ OUT_sheet = <<>>
  /\ IF script = "functions" THEN TRUE ELSE call = [f |-> "none"] /\ result = Ok(0)

(* ------------------------------------------------------------------ *)
(* Geocoding_QA.py: the runs explored                                  *)
(* ------------------------------------------------------------------ *)

MaxRows == 2

Attributes(d, o, r, s, t, iso) ==
  [dam_name |-> d, dam_other_name |-> o, reservoir_name |-> r, state_province |-> s,
   town_original |-> t, this_country_ISO |-> iso]

\* a record with state and town, one with neither, one of China with a state, and one
\* that has no dam name but another name
WRD_pool ==
  {Attributes(<<"t", "u", "t", "t", "l", "e">>, <<>>, <<>>, <<"k", "a", "n", "s", "a", "s">>, <<"m", "a", "n", "h", "a", "t", "t", "a", "n">>, <<"u", "s">>),
   Attributes(<<"T", "u", "t", "t", "l", "e", " ">>, <<>>, <<>>, <<>>, <<>>, <<"u", "s">>),
   Attributes(<<"m", "i", "y", "u", "n">>, <<>>, <<>>, <<"b", "e", "i", "j", "i", "n", "g">>, <<>>, <<"c", "n">>),
   Attributes(<<>>, <<"t", "u", "t", "t", "l", "e">>, <<>>, <<>>, <<>>, <<"u", "s">>)}

\* the scenario a geocoded address of the record has when state and town agree as far
\* as the record states them
home(rec) ==
  <<"in-country",
    IF rec.state_province # <<>> THEN "in-state" ELSE "unknown-state",
    IF rec.town_original # <<>> THEN "in-town" ELSE "unknown-town">>
\* feature names the geocoder returns: two spellings of the record's name and another name
spellings(rec) ==
  IF rec.this_country_ISO = <<"c", "n">>
  THEN << <<"M", "i", "y", "u", "n">>,
          <<"m", "i", "y", "u", "n", " ", "s", "h", "u", "i", "k", "u">>,
          <<"t", "u", "t", "t", "l", "e", " ", "d", "a", "m">> >>
  ELSE << <<"T", "u", "t", "t", "l", "e", " ", "D", "a", "m">>,
          <<"t", "u", "t", "t", "l", "e", " ", "d", "a", "m">>,
          <<"m", "i", "y", "u", "n">> >>

\* the WRD attributes a row carries, as the scripts retrieve them
Attr(row) ==
  Attributes(Strip(Lower(row.dam_name)), Strip(Lower(row.dam_other_name)),
             Strip(Lower(row.reservoir_name)), Strip(Lower(row.state_province)),
             Strip(Lower(row.town_original)), row.this_country_ISO)

\* the geocoded rows of a record: the address is one of the first two scenarios of
\* the record, sent with or without the country
geocoded(rec) ==
  LET Rows(Sc) ==
        LET Row(k, restricted, match, scenario, g) ==
              rec @@ [text_addr |-> Sc[k],
                      encoded_addr |-> encoded_addr(Sc[k], restricted, rec.this_country_ISO),
                      match |-> match, scenario |-> scenario,
                      geocoded_name |-> spellings(rec)[g]]
        IN {Row(1, TRUE, "complete-match", home(rec), 1),
            Row(1, TRUE, "complete-match", home(rec), 2),
            Row(1, FALSE, "complete-match", home(rec), 1),
            Row(2, TRUE, "complete-match", home(rec), 1),
            Row(1, TRUE, "complete-match", home(rec), 3),
            Row(2, FALSE, "partial-match", home(rec), 1),
            Row(1, FALSE, "complete-match", <<"out-country", "out-state", "out-town">>, 1)}
  IN Rows(Sc_list_cleaned(Attr(rec)))

\* the ICOLD IDs of the rows: the file starts with record 1 and has at most one row of
\* record 2
ID_patterns ==
  {ids \in UNION {[1..n -> {1, 2}] : n \in 1..MaxRows} :
     ids[1] = 1 /\ Cardinality({k \in DOMAIN ids : ids[k] = 2}) <= 1}

\* the rows of the file: rows of record 1, which is any record of the pool, and of record 2
InitQA ==
  /\ script = "Geocoding_QA" /\ raised = "none" /\ closed = FALSE
  /\ \E ids \in ID_patterns, rec1 \in WRD_pool :
       LET rec2 == Attributes(<<"t", "u", "t", "t", "l", "e">>, <<>>, <<>>, <<"k", "a", "n", "s", "a", "s">>, <<"m", "a", "n", "h", "a", "t", "t", "a", "n">>, <<"u", "s">>)
           rows1 == {[ICOLDID |-> 1] @@ r : r \in geocoded(rec1)}
           rows2 == {[ICOLDID |-> 2] @@ r : r \in geocoded(rec2)}
       IN infile_rows \in {rows \in [DOMAIN ids -> rows1 \cup rows2] :
                             \A k \in DOMAIN ids : rows[k].ICOLDID = ids[k]}
  /\ ii = 0
  /\ considered_IDs = <<>> /\ outfile_sheet = <<>> /\ QA_rank = 0
  /\ Idle

RunsQA == script = "Geocoding_QA" /\ raised = "none" /\ ~closed

\* ii == 0: the header is written with the column QA_rank added
QA_Header ==
  /\ RunsQA /\ ii = 0
  /\ outfile_sheet' = Append(outfile_sheet, [row |-> [ICOLDID |-> 0], QA_rank |-> 0])
  /\ ii' = 1
  /\ UNCHANGED <<script, raised, closed, infile_rows, considered_IDs, QA_rank,
                 registry, reg_i, QA_mark, reg_i_QA_array, OUT_sheet, call, result, geocoding, retrieval>>

\* a row whose ICOLD ID is in considered_IDs: nothing is done
QA_Skip ==
  /\ RunsQA /\ ii \in 1..Len(infile_rows)
  /\ \E k \in 1..Len(considered_IDs) : considered_IDs[k] = infile_rows[ii].ICOLDID
  /\ ii' = ii + 1
  /\ UNCHANGED <<script, raised, closed, infile_rows, considered_IDs, outfile_sheet, QA_rank,
                 registry, reg_i, QA_mark, reg_i_QA_array, OUT_sheet, call, result, geocoding, retrieval>>

\* the first row of an ICOLD ID: the ID is considered, the rows of the ID are ranked
\* and the best one, if any, is written with its rank
QA_Evaluate ==
  LET Write(row, best) ==
        /\ considered_IDs' = Append(considered_IDs, row.ICOLDID)
        /\ QA_rank' = best.QA_rank
        /\ IF best.exc # "none"
           THEN raised' = best.exc /\ UNCHANGED <<ii, outfile_sheet>>
           ELSE /\ ii' = ii + 1
                /\ outfile_sheet' =
                     IF best.final_index = 0 THEN outfile_sheet
                     ELSE Append(outfile_sheet,
                                 [row |-> infile_rows[best.final_index],
                                  QA_rank |-> best.QA_rank])
                /\ UNCHANGED raised
  IN /\ Write(infile_rows[ii],
              rank(Attr(infile_rows[ii]), infile_rows, infile_rows[ii].ICOLDID))
     /\ UNCHANGED <<script, closed, infile_rows,
                    registry, reg_i, QA_mark, reg_i_QA_array, OUT_sheet, call, result, geocoding, retrieval>>

\* QA_Rank without the test "if this_ICOLDID not in considered_IDs"
QA_Rank_considered_again ==
  /\ RunsQA /\ ii \in 1..Len(infile_rows)
  /\ infile_rows[ii].this_country_ISO # <<"c", "n">>
  /\ QA_Evaluate

\* the branch "if this_country_ISO != 'cn'"
QA_Rank ==
  /\ RunsQA /\ ii \in 1..Len(infile_rows)
  /\ \A k \in 1..Len(considered_IDs) : considered_IDs[k] # infile_rows[ii].ICOLDID
  /\ infile_rows[ii].this_country_ISO # <<"c", "n">>
  /\ QA_Evaluate

\* the branch for China
QA_Rank_cn ==
  /\ RunsQA /\ ii \in 1..Len(infile_rows)
  /\ \A k \in 1..Len(considered_IDs) : considered_IDs[k] # infile_rows[ii].ICOLDID
  /\ infile_rows[ii].this_country_ISO = <<"c", "n">>
  /\ QA_Evaluate

\* after the loop: outfile_obj.close()
QA_Close ==
  /\ RunsQA /\ ii = Len(infile_rows) + 1
  /\ closed' = TRUE
  /\ UNCHANGED <<script, raised, infile_rows, ii, considered_IDs, outfile_sheet, QA_rank,
                 registry, reg_i, QA_mark, reg_i_QA_array, OUT_sheet, call, result, geocoding, retrieval>>

(* ------------------------------------------------------------------ *)
(* Geomatching_ICOLD.py: the QA level of a register record             *)
(* ------------------------------------------------------------------ *)

similarity_threshold_GM == <<6, 7>>

\* the lookup table of ICOLD country names and ISO codes
country_NAME_array == <<<<"b", "r", "a", "z", "i", "l">>, <<"u", "n", "i", "t", "e", "d", " ", "s", "t", "a", "t", "e", "s">>>>
country_ISO_array == <<<<"b", "r">>, <<"u", "s">>>>

\* country_ISO_array[country_index[0]]
country_ISO(country) ==
  country_ISO_array[SetMin({i \in 1..Len(country_NAME_array) : country_NAME_array[i] = country})]

\* registry_addrs[reg_i][2][k] without accents
google(reg, k) == remove_accents(reg.registry_addr[3][k + 1])

country_google_array(reg) == <<reg.registry_countries_ISO, google(reg, 1)>>

state_google_array(reg) ==
  <<remove_accents(reg.registry_addr[2]), google(reg, 2), google(reg, 3), google(reg, 4),
    google(reg, 5), google(reg, 6), google(reg, 7)>>

town_google_array(reg) ==
  <<remove_accents(reg.registry_addr[1]), google(reg, 4), google(reg, 5), google(reg, 6),
    google(reg, 7), google(reg, 8), google(reg, 9), google(reg, 10), google(reg, 11),
    google(reg, 12), google(reg, 13), google(reg, 14), google(reg, 15), google(reg, 16),
    google(reg, 17)>>

\* similarity_metric_*_array: similar(x, g) for each g of the array from the k-th on
RECURSIVE similarity_metric_array(_, _, _)
similarity_metric_array(x, google_array, k) ==
  IF k > Len(google_array) THEN <<>>
  ELSE <<similar(x, google_array[k])>> \o similarity_metric_array(x, google_array, k + 1)

\* google_*_arrays_c: the components from the k-th on, decomposed by '/' and '\'
RECURSIVE Decomposed(_, _)
Decomposed(arrays, k) ==
  IF k > Len(arrays) THEN <<>>
  ELSE (IF "\\" \in Range(arrays[k]) \/ "/" \in Range(arrays[k])
        THEN [j \in 1..Len(SlashParts(arrays[k])) |-> SlashParts(arrays[k])[j]]
        ELSE <<Strip(arrays[k])>>)
       \o Decomposed(arrays, k + 1)

\* one pair of the containment loops: TRUE when it sets containment_check to 1
Contained(this_ascii, this_google) ==
  IF In(this_ascii, this_google) /\ this_ascii # this_google /\ this_ascii # <<>>
     /\ this_google # <<>> /\ this_ascii # <<"-", "9", "9", "9">> /\ this_google # <<"-", "9", "9", "9">>
  THEN ContainedAtEdge(this_ascii, this_google)
  ELSE IF In(this_google, this_ascii) /\ this_ascii # this_google /\ this_ascii # <<>>
          /\ this_google # <<>> /\ this_ascii # <<"-", "9", "9", "9">> /\ this_google # <<"-", "9", "9", "9">>
  THEN ContainedAtEdge(this_google, this_ascii)
  ELSE FALSE

containment_check(google_arrays_c, ascii_c) ==
  IF \E i \in 1..Len(google_arrays_c), j \in 1..Len(ascii_c) :
       Contained(ascii_c[j], google_arrays_c[i])
  THEN 1 ELSE 0

\* state_pass and town_pass
admin_pass(similarity_metric, containment) ==
  IF (\E k \in 1..Len(similarity_metric) :
        FracGE(similarity_metric[k].val, similarity_threshold_GM)) \/ containment = 1
  THEN 1 ELSE 0

country_pass(w, reg) ==
  IF w.this_country_ISO = reg.registry_countries_ISO \/ w.this_country_ISO = google(reg, 1)
  THEN 1 ELSE 0

\* QA_level without the test on name_pass in the condition of line 437
QA_level_any_name(name_pass, country, state_pass, town_pass, river_pass, year_pass, state_province_ascii, river_name, year_name, this_registry_river, this_registry_year) ==
  IF ~(/\ country = 1
       /\ (state_pass = 1 /\ state_province_ascii # <<>>) \/ state_province_ascii = <<>>)
  THEN 0
  ELSE IF town_pass = 1
  THEN (IF (river_pass = 10 \/ year_pass = 10) /\ name_pass = 10 THEN 10
        ELSE IF (river_pass = 5 \/ year_pass = 10) /\ name_pass = 10 THEN 12
        ELSE IF (river_pass = 10 \/ year_pass = 10) /\ name_pass = 5 THEN 13
        ELSE IF (river_pass = 5 \/ year_pass = 10) /\ name_pass = 5 THEN 14
        ELSE IF /\ river_name = <<>> \/ this_registry_river = <<>>
                /\ year_name = <<>> \/ this_registry_year = <<>>
                /\ state_province_ascii # <<>>
        THEN (IF name_pass = 10 THEN 20 ELSE 23)
        ELSE IF /\ river_name = <<>> \/ this_registry_river = <<>>
                /\ year_name = <<>> \/ this_registry_year = <<>>
                /\ state_province_ascii = <<>>
        THEN (IF name_pass = 10 THEN 30 ELSE 33)
        ELSE 0)
  ELSE IF town_pass = 0 /\ river_pass > 0 /\ year_pass = 10 /\ state_province_ascii # <<>>
  THEN (IF name_pass = 10 /\ river_pass = 10 THEN 20
        ELSE IF name_pass = 10 /\ river_pass = 5 THEN 22
        ELSE IF name_pass = 5 /\ river_pass = 10 THEN 23
        ELSE 24)
  ELSE IF town_pass = 0 /\ river_pass > 0 /\ year_pass = 10 /\ state_province_ascii = <<>>
  THEN (IF name_pass = 10 /\ river_pass = 10 THEN 30
        ELSE IF name_pass = 10 /\ river_pass = 5 THEN 32
        ELSE IF name_pass = 5 /\ river_pass = 10 THEN 33
        ELSE 34)
  ELSE IF town_pass = 0 /\ (river_pass > 0 \/ year_pass = 10)
  THEN (IF name_pass = 10 /\ (river_pass = 10 \/ year_pass = 10) THEN 30
        ELSE IF name_pass = 10 /\ river_pass = 5 THEN 32
        ELSE IF name_pass = 5 /\ (river_pass = 10 \/ year_pass = 10) THEN 33
        ELSE 34)
  ELSE 0

\* the if/elif chain on the passes: the QA level of the register record times 10, which
\* is 10 for M1:1 and 0 when the record enters no array
QA_level(name_pass, country, state_pass, town_pass, river_pass, year_pass, state_province_ascii, river_name, year_name, this_registry_river, this_registry_year) ==
  IF ~(/\ name_pass = 10 \/ name_pass = 5
       /\ country = 1
       /\ (state_pass = 1 /\ state_province_ascii # <<>>) \/ state_province_ascii = <<>>)
  THEN 0
  ELSE IF town_pass = 1
  THEN (IF (river_pass = 10 \/ year_pass = 10) /\ name_pass = 10 THEN 10
        ELSE IF (river_pass = 5 \/ year_pass = 10) /\ name_pass = 10 THEN 12
        ELSE IF (river_pass = 10 \/ year_pass = 10) /\ name_pass = 5 THEN 13
        ELSE IF (river_pass = 5 \/ year_pass = 10) /\ name_pass = 5 THEN 14
        ELSE IF /\ river_name = <<>> \/ this_registry_river = <<>>
                /\ year_name = <<>> \/ this_registry_year = <<>>
                /\ state_province_ascii # <<>>
        THEN (IF name_pass = 10 THEN 20 ELSE 23)
        ELSE IF /\ river_name = <<>> \/ this_registry_river = <<>>
                /\ year_name = <<>> \/ this_registry_year = <<>>
                /\ state_province_ascii = <<>>
        THEN (IF name_pass = 10 THEN 30 ELSE 33)
        ELSE 0)
  ELSE IF town_pass = 0 /\ river_pass > 0 /\ year_pass = 10 /\ state_province_ascii # <<>>
  THEN (IF name_pass = 10 /\ river_pass = 10 THEN 20
        ELSE IF name_pass = 10 /\ river_pass = 5 THEN 22
        ELSE IF name_pass = 5 /\ river_pass = 10 THEN 23
        ELSE 24)
  ELSE IF town_pass = 0 /\ river_pass > 0 /\ year_pass = 10 /\ state_province_ascii = <<>>
  THEN (IF name_pass = 10 /\ river_pass = 10 THEN 30
        ELSE IF name_pass = 10 /\ river_pass = 5 THEN 32
        ELSE IF name_pass = 5 /\ river_pass = 10 THEN 33
        ELSE 34)
  ELSE IF town_pass = 0 /\ (river_pass > 0 \/ year_pass = 10)
  THEN (IF name_pass = 10 /\ (river_pass = 10 \/ year_pass = 10) THEN 30
        ELSE IF name_pass = 10 /\ river_pass = 5 THEN 32
        ELSE IF name_pass = 5 /\ (river_pass = 10 \/ year_pass = 10) THEN 33
        ELSE 34)
  ELSE 0

\* the body of the loop over the register for one register record: the exception it
\* raises, or the QA level of the record
Compare(w, reg) ==
  LET Passes(metric_country, metric_state, metric_town, containment_check_state,
             containment_check_town, name_pass, river_pass) ==
        IF \E k \in 1..Len(metric_country) : metric_country[k].exc # "none"
        THEN [exc |-> "ValueError", level |-> 0]
        ELSE IF \E k \in 1..Len(metric_state) : metric_state[k].exc # "none"
        THEN [exc |-> "ValueError", level |-> 0]
        ELSE IF \E k \in 1..Len(metric_town) : metric_town[k].exc # "none"
        THEN [exc |-> "ValueError", level |-> 0]
        ELSE IF name_pass.exc # "none" THEN [exc |-> name_pass.exc, level |-> 0]
        ELSE IF river_pass.exc # "none" THEN [exc |-> river_pass.exc, level |-> 0]
        ELSE [exc |-> "none",
              level |-> QA_level(name_pass.val, country_pass(w, reg),
                                 admin_pass(metric_state, containment_check_state),
                                 admin_pass(metric_town, containment_check_town),
                                 river_pass.val,
                                 year_similar(w.year_name, reg.registry_year),
                                 w.state_province_ascii, w.river_name, w.year_name,
                                 reg.registry_river, reg.registry_year)]
  IN Passes(similarity_metric_array(w.this_country_ISO, country_google_array(reg), 1),
            similarity_metric_array(w.state_province_ascii, state_google_array(reg), 1),
            similarity_metric_array(w.town_ascii, town_google_array(reg), 1),
            containment_check(Decomposed(state_google_array(reg), 1),
                              Decomposed(<<w.state_province_ascii>>, 1)),
            containment_check(Decomposed(town_google_array(reg), 1),
                              Decomposed(<<w.town_ascii>>, 1)),
            damname_similar(similarity_threshold_GM, w.dam_name, w.dam_other_name,
                            w.reservoir_name, reg.registry_dam_name, w.this_country_ISO),
            river_similar(similarity_threshold_GM, w.river_name, reg.registry_river))

\* the QA levels below M1:1 in decreasing precedence, each with its array
QA_levels == <<12, 13, 14, 20, 22, 23, 24, 30, 32, 33, 34>>

(* ------------------------------------------------------------------ *)
(* Geomatching_ICOLD.py: the loop over the WRD records                 *)
(* ------------------------------------------------------------------ *)

MaxRegistry == 2

WRD_record(d, o, r, river, year, s, t, country, keep) ==
  [dam_name |-> d, dam_other_name |-> o, reservoir_name |-> r, river_name |-> river,
   year_name |-> year, state_province |-> s, town_original |-> t, country |-> country,
   keep_FIN |-> keep]

\* WRD records: one with every attribute, one without state and town, a duplicate that
\* is not kept, one of a country the register does not cover, one named by its other name
GM_WRD_pool ==
  {WRD_record(<<"P", "e", "d", "r", "a", " ", "A", "l", "t", "a">>, <<>>, <<>>, <<"d", "o", "c", "e">>, <<"1", "9", "8", "4">>, <<"a", "c", "r", "e">>, <<"f", "e", "i", "j", "o">>, <<"b", "r", "a", "z", "i", "l">>, <<"1">>),
   WRD_record(<<"p", "e", "d", "r", "a", " ", "a", "l", "t", "a">>, <<>>, <<>>, <<"d", "o", "c", "e">>, <<"1", "9", "8", "4">>, <<>>, <<>>, <<"b", "r", "a", "z", "i", "l">>, <<"1">>),
   WRD_record(<<"p", "e", "d", "r", "a", " ", "a", "l", "t", "a">>, <<>>, <<>>, <<"d", "o", "c", "e">>, <<"1", "9", "8", "4">>, <<"a", "c", "r", "e">>, <<"f", "e", "i", "j", "o">>, <<"b", "r", "a", "z", "i", "l">>, <<"0">>),
   WRD_record(<<"p", "e", "d", "r", "a", " ", "a", "l", "t", "a">>, <<>>, <<>>, <<"d", "o", "c", "e">>, <<"1", "9", "8", "4">>, <<"a", "c", "r", "e">>, <<"f", "e", "i", "j", "o">>, <<"u", "n", "i", "t", "e", "d", " ", "s", "t", "a", "t", "e", "s">>, <<"1">>),
   WRD_record(<<>>, <<"p", "e", "d", "r", "a", " ", "a", "l", "t", "a">>, <<>>, <<"d", "o", "c", "e">>, <<"1", "9", "8", "4">>, <<"a", "c", "r", "e">>, <<"f", "e", "i", "j", "o">>, <<"b", "r", "a", "z", "i", "l">>, <<"1">>)}

\* row[54:72] of a register record: country, administrative levels 1 to 5, localities
reverse_geocoded(adm1_long, adm1_short, locality) ==
  <<<<"b", "r", "a", "z", "i", "l">>, <<"b", "r">>, adm1_long, adm1_short, <<>>, <<>>, <<>>, <<>>, <<>>, <<>>, <<>>, <<>>,
    locality, locality, <<>>, <<>>, <<>>, <<>>>>

Register(ID, dam, river, year, town, province, components) ==
  [registry_ID |-> ID, registry_dam_name |-> dam, registry_river |-> river,
   registry_year |-> year, registry_countries_ISO |-> <<"b", "r">>,
   registry_addr |-> <<town, province, components>>]

\* rows of the register, the province as the register codes it: the dam itself, a second
\* entry of it, a dam whose name shares a word, the dam without river and year, the dam
\* near another town, another dam whose province cell is empty, a dam of the same name,
\* river, year and town in another state
registry_pool ==
  {Register(1, <<"p", "e", "d", "r", "a", " ", "a", "l", "t", "a">>, <<"d", "o", "c", "e">>, <<"1", "9", "8", "4">>, <<"f", "e", "i", "j", "o">>, <<"a", "c">>, reverse_geocoded(<<"a", "c", "r", "e">>, <<"a", "c">>, <<"f", "e", "i", "j", "o">>)),
   Register(2, <<"p", "e", "d", "r", "a", " ", "a", "l", "t", "a">>, <<"d", "o", "c", "e">>, <<"1", "9", "8", "4">>, <<"f", "e", "i", "j", "o">>, <<"a", "c">>, reverse_geocoded(<<"a", "c", "r", "e">>, <<"a", "c">>, <<"f", "e", "i", "j", "o">>)),
   Register(3, <<"a", "l", "t", "a", " ", "v", "i", "s", "t", "a">>, <<"d", "o", "c", "e">>, <<>>, <<"v", "i", "l", "a", " ", "f", "e", "i", "j", "o">>, <<"a", "c">>, reverse_geocoded(<<"a", "c", "r", "e">>, <<"a", "c">>, <<>>)),
   Register(4, <<"p", "e", "d", "r", "a", " ", "a", "l", "t", "a">>, <<>>, <<>>, <<"f", "e", "i", "j", "o">>, <<"a", "c">>, reverse_geocoded(<<"a", "c", "r", "e">>, <<"a", "c">>, <<"f", "e", "i", "j", "o">>)),
   Register(5, <<"p", "e", "d", "r", "a", " ", "a", "l", "t", "a">>, <<"d", "o", "c", "e">>, <<"1", "9", "8", "5">>, <<"t", "a", "r", "a", "u", "a", "c", "a">>, <<"a", "c">>, reverse_geocoded(<<"a", "c", "r", "e">>, <<"a", "c">>, <<>>)),
   Register(6, <<"t", "u", "c", "u", "r", "u", "i">>, <<"t", "o", "c", "a", "n", "t", "i", "n", "s">>, <<"1", "9", "8", "4">>, <<"f", "e", "i", "j", "o">>, <<>>, reverse_geocoded(<<"a", "c", "r", "e">>, <<"a", "c">>, <<"f", "e", "i", "j", "o">>)),
   Register(7, <<"p", "e", "d", "r", "a", " ", "a", "l", "t", "a">>, <<"d", "o", "c", "e">>, <<"1", "9", "8", "4">>, <<"f", "e", "i", "j", "o">>, <<"a", "m">>, reverse_geocoded(<<"a", "m", "a", "z", "o", "n", "a", "s">>, <<"a", "m">>, <<"f", "e", "i", "j", "o">>))}

\* the provinces of Brazil: the code the register uses and the name as the WRD spells it
provinces ==
  {<<<<"a", "c">>, <<"a", "c", "r", "e">>>>,
   <<<<"a", "l">>, <<"a", "l", "a", "g", "o", "a", "s">>>>,
   <<<<"a", "m">>, <<"a", "m", "a", "z", "o", "n", "a", "s">>>>,
   <<<<"a", "p">>, <<"a", "m", "a", "p", "a_acute">>>>,
   <<<<"b", "a">>, <<"b", "a", "h", "i", "a">>>>,
   <<<<"c", "e">>, <<"c", "e", "a", "r", "a_acute">>>>,
   <<<<"d", "f">>, <<"d", "i", "s", "t", "r", "i", "t", "o", " ", "f", "e", "d", "e", "r", "a", "l">>>>,
   <<<<"e", "s">>, <<"e", "s", "p", "i_acute", "r", "i", "t", "o", " ", "s", "a", "n", "t", "o">>>>,
   <<<<"g", "o">>, <<"g", "o", "i", "a_acute", "s">>>>,
   <<<<"m", "a">>, <<"m", "a", "r", "a", "n", "h", "a_tilde", "o">>>>,
   <<<<"m", "g">>, <<"m", "i", "n", "a", "s", " ", "g", "e", "r", "a", "i", "s">>>>,
   <<<<"m", "s">>, <<"m", "a", "t", "o", " ", "g", "r", "o", "s", "s", "o", " ", "d", "o", " ", "s", "u", "l">>>>,
   <<<<"m", "t">>, <<"m", "a", "t", "o", " ", "g", "r", "o", "s", "s", "o">>>>,
   <<<<"p", "a">>, <<"p", "a", "r", "a_acute">>>>,
   <<<<"p", "b">>, <<"p", "a", "r", "a", "i_acute", "b", "a">>>>,
   <<<<"p", "e">>, <<"p", "e", "r", "n", "a", "m", "b", "u", "c", "o">>>>,
   <<<<"p", "i">>, <<"p", "i", "a", "u", "i_acute">>>>,
   <<<<"p", "r">>, <<"p", "a", "r", "a", "n", "a_acute">>>>,
   <<<<"r", "j">>, <<"r", "i", "o", " ", "d", "e", " ", "j", "a", "n", "e", "i", "r", "o">>>>,
   <<<<"r", "n">>, <<"r", "i", "o", " ", "g", "r", "a", "n", "d", "e", " ", "d", "o", " ", "n", "o", "r", "t", "e">>>>,
   <<<<"r", "o">>, <<"r", "o", "n", "d", "o_circumflex", "n", "i", "a">>>>,
   <<<<"r", "r">>, <<"r", "o", "r", "a", "i", "m", "a">>>>,
   <<<<"r", "s">>, <<"r", "i", "o", " ", "g", "r", "a", "n", "d", "e", " ", "d", "o", " ", "s", "u", "l">>>>,
   <<<<"s", "c">>, <<"s", "a", "n", "t", "a", " ", "c", "a", "t", "a", "r", "i", "n", "a">>>>,
   <<<<"s", "e">>, <<"s", "e", "r", "g", "i", "p", "e">>>>,
   <<<<"s", "p">>, <<"s", "a_tilde", "o", " ", "p", "a", "u", "l", "o">>>>,
   <<<<"t", "o">>, <<"t", "o", "c", "a", "n", "t", "i", "n", "s">>>>}

\* the chain of tests on original_province: replace_province is assigned when the
\* province of the row is one of the codes and keeps the value it had otherwise; before
\* the first assignment the name is unbound
replace_province(original_province, carried) ==
  IF \E p \in provinces : p[1] = original_province
  THEN Ok((CHOOSE p \in provinces : p[1] = original_province)[2])
  ELSE carried

\* the loop over the rows of the register from row k on
RECURSIVE registry_load(_, _, _)
registry_load(registry_sheet, k, carried) ==
  IF k > Len(registry_sheet) THEN Ok(<<>>)
  ELSE LET province == replace_province(registry_sheet[k].registry_addr[2], carried)
           rest == registry_load(registry_sheet, k + 1, province)
       IN IF province.exc # "none" THEN province
          ELSE IF rest.exc # "none" THEN rest
          ELSE Ok(<<[registry_sheet[k] EXCEPT !.registry_addr[2] = province.val]>> \o rest.val)

\* the attributes retrieved from a row of the WRD
GM_Attr(row) ==
  [dam_name |-> Strip(Lower(row.dam_name)),
   dam_other_name |-> Strip(Lower(row.dam_other_name)),
   reservoir_name |-> Strip(Lower(row.reservoir_name)),
   river_name |-> Strip(Lower(row.river_name)),
   year_name |-> Strip(Lower(row.year_name)),
   state_province_ascii |-> remove_accents(Strip(Lower(row.state_province))),
   town_ascii |-> remove_accents(Strip(Lower(row.town_original))),
   this_country_ISO |-> country_ISO(Strip(Lower(row.country))),
   this_keep_FIN |-> Strip(Lower(row.keep_FIN))]

\* (this_country_ISO in registry_countries_ISO) and this_keep_FIN == '1'
Eligible(w) ==
  /\ \E k \in 1..Len(registry) : registry[k].registry_countries_ISO = w.this_country_ISO
  /\ w.this_keep_FIN = <<"1">>

\* the WRD has one row per record: the ICOLD ID of a row is its place in the file; the
\* register has one row per registry ID, in any order, and is loaded before the loop; a
\* first row without a province code ends the script with a NameError
InitGM ==
  /\ script = "Geomatching_ICOLD" /\ closed = FALSE
  /\ \E registry_sheet \in UNION {[1..n -> registry_pool] : n \in 0..MaxRegistry} :
       /\ \A k, l \in 1..Len(registry_sheet) :
            registry_sheet[k].registry_ID = registry_sheet[l].registry_ID => k = l
       /\ raised = registry_load(registry_sheet, 1, Raise("NameError")).exc
       /\ registry = IF raised = "none" THEN registry_load(registry_sheet, 1, Raise("NameError")).val ELSE <<>>
  /\ \E rec1 \in GM_WRD_pool :
       infile_rows \in
         {<<[ICOLDID |-> 1] @@ rec1>>,
          <<[ICOLDID |-> 1] @@ rec1,
            [ICOLDID |-> 2] @@ WRD_record(<<"p", "e", "d", "r", "a", " ", "a", "l", "t", "a">>, <<>>, <<>>, <<"d", "o", "c", "e">>, <<"1", "9", "8", "4">>,
                                          <<"a", "c", "r", "e">>, <<"f", "e", "i", "j", "o">>, <<"b", "r", "a", "z", "i", "l">>, <<"1">>)>>}
  /\ ii = 0 /\ reg_i = 0 /\ QA_mark = 0 /\ reg_i_QA_array = [level \in {} |-> <<>>] /\ OUT_sheet = <<>>
  /\ Idle

RunsGM == script = "Geomatching_ICOLD" /\ raised = "none" /\ ~closed

\* ii == 0: the header is written with the columns of the register added
GM_Header ==
  /\ RunsGM /\ ii = 0
  /\ OUT_sheet' = Append(OUT_sheet, [row |-> [ICOLDID |-> 0], reg_QA |-> 0, reg_i |-> 0])
  /\ ii' = 1
  /\ UNCHANGED <<script, raised, closed, infile_rows, considered_IDs, outfile_sheet, QA_rank,
                 registry, reg_i, QA_mark, reg_i_QA_array, call, result, geocoding, retrieval>>

\* a record of a country outside the register, or one that is not kept: nothing is done
GM_Skip ==
  /\ RunsGM /\ ii \in 1..Len(infile_rows) /\ reg_i = 0
  /\ ~Eligible(GM_Attr(infile_rows[ii]))
  /\ ii' = ii + 1
  /\ UNCHANGED <<script, raised, closed, infile_rows, considered_IDs, outfile_sheet, QA_rank,
                 registry, reg_i, QA_mark, reg_i_QA_array, OUT_sheet, call, result, geocoding, retrieval>>

\* an eligible record: QA_mark = 0, the arrays are emptied, the loop over the register
\* starts
GM_Begin ==
  /\ RunsGM /\ ii \in 1..Len(infile_rows) /\ reg_i = 0
  /\ Eligible(GM_Attr(infile_rows[ii]))
  /\ QA_mark' = 0
  /\ reg_i_QA_array' = [level \in Range(QA_levels) |-> <<>>]
  /\ reg_i' = 1
  /\ UNCHANGED <<script, raised, closed, infile_rows, ii, considered_IDs, outfile_sheet,
                 QA_rank, registry, OUT_sheet, call, result, geocoding, retrieval>>

\* GM_Compare with the row written and the loop left at the first level found, whatever it is
GM_Compare_first_level ==
  /\ RunsGM /\ reg_i \in 1..Len(registry) /\ QA_mark # 1
  /\ LET Level(c) ==
           IF c.exc # "none"
           THEN raised' = c.exc /\ UNCHANGED <<QA_mark, OUT_sheet, reg_i, reg_i_QA_array>>
           ELSE IF c.level # 0
           THEN /\ QA_mark' = 1
                /\ OUT_sheet' = Append(OUT_sheet, [row |-> infile_rows[ii], reg_QA |-> c.level,
                                                   reg_i |-> reg_i])
                /\ UNCHANGED <<raised, reg_i, reg_i_QA_array>>
           ELSE /\ reg_i_QA_array' =
                     IF c.level = 0 THEN reg_i_QA_array
                     ELSE [reg_i_QA_array EXCEPT ![c.level] = Append(@, reg_i)]
                /\ reg_i' = reg_i + 1
                /\ UNCHANGED <<raised, QA_mark, OUT_sheet>>
     IN Level(Compare(GM_Attr(infile_rows[ii]), registry[reg_i]))
  /\ UNCHANGED <<script, closed, infile_rows, ii, considered_IDs, outfile_sheet, QA_rank,
                 registry, call, result, geocoding, retrieval>>

\* one pass of the loop over the register: at M1:1 the row is written and the loop is
\* left, otherwise the register record is appended to the array of its level
GM_Compare ==
  /\ RunsGM /\ reg_i \in 1..Len(registry) /\ QA_mark # 1
  /\ LET Level(c) ==
           IF c.exc # "none"
           THEN raised' = c.exc /\ UNCHANGED <<QA_mark, OUT_sheet, reg_i, reg_i_QA_array>>
           ELSE IF c.level = 10
           THEN /\ QA_mark' = 1
                /\ OUT_sheet' = Append(OUT_sheet, [row |-> infile_rows[ii], reg_QA |-> 10,
                                                   reg_i |-> reg_i])
                /\ UNCHANGED <<raised, reg_i, reg_i_QA_array>>
           ELSE /\ reg_i_QA_array' =
                     IF c.level = 0 THEN reg_i_QA_array
                     ELSE [reg_i_QA_array EXCEPT ![c.level] = Append(@, reg_i)]
                /\ reg_i' = reg_i + 1
                /\ UNCHANGED <<raised, QA_mark, OUT_sheet>>
     IN Level(Compare(GM_Attr(infile_rows[ii]), registry[reg_i]))
  /\ UNCHANGED <<script, closed, infile_rows, ii, considered_IDs, outfile_sheet, QA_rank,
                 registry, call, result, geocoding, retrieval>>

\* GM_Select with the arrays looked at from the last level to the first
GM_Select_last_level ==
  /\ RunsGM /\ reg_i >= 1 /\ (QA_mark = 1 \/ reg_i > Len(registry))
  /\ LET Best(filled) ==
           IF QA_mark # 1 /\ filled # {}
           THEN Append(OUT_sheet, [row |-> infile_rows[ii],
                                   reg_QA |-> QA_levels[SetMax(filled)],
                                   reg_i |-> reg_i_QA_array[QA_levels[SetMax(filled)]][1]])
           ELSE OUT_sheet
     IN OUT_sheet' = Best({k \in 1..Len(QA_levels) : reg_i_QA_array[QA_levels[k]] # <<>>})
  /\ ii' = ii + 1
  /\ reg_i' = 0
  /\ UNCHANGED <<script, raised, closed, infile_rows, considered_IDs, outfile_sheet, QA_rank,
                 registry, QA_mark, reg_i_QA_array, call, result, geocoding, retrieval>>

\* after the loop: unless M1:1 was reached, the first register record of the best
\* array that is not empty is written
GM_Select ==
  /\ RunsGM /\ reg_i >= 1 /\ (QA_mark = 1 \/ reg_i > Len(registry))
  /\ LET Best(filled) ==
           IF QA_mark # 1 /\ filled # {}
           THEN Append(OUT_sheet, [row |-> infile_rows[ii],
                                   reg_QA |-> QA_levels[SetMin(filled)],
                                   reg_i |-> reg_i_QA_array[QA_levels[SetMin(filled)]][1]])
           ELSE OUT_sheet
     IN OUT_sheet' = Best({k \in 1..Len(QA_levels) : reg_i_QA_array[QA_levels[k]] # <<>>})
  /\ ii' = ii + 1
  /\ reg_i' = 0
  /\ UNCHANGED <<script, raised, closed, infile_rows, considered_IDs, outfile_sheet, QA_rank,
                 registry, QA_mark, reg_i_QA_array, call, result, geocoding, retrieval>>

\* after the loop over the records: OUT_obj.close()
GM_Close ==
  /\ RunsGM /\ ii = Len(infile_rows) + 1
  /\ closed' = TRUE
  /\ UNCHANGED <<script, raised, infile_rows, ii, considered_IDs, outfile_sheet, QA_rank,
                 registry, reg_i, QA_mark, reg_i_QA_array, OUT_sheet, call, result, geocoding, retrieval>>

(* ------------------------------------------------------------------ *)
(* Georeferencing_functions.py: one call of a function                 *)
(* ------------------------------------------------------------------ *)

Call(f, args) == [f |-> f, args |-> args, done |-> FALSE]

Calls ==
  {Call("similar", <<a, b>>) : a \in {<<>>, <<"-", "9", "9", "9">>, <<"/">>, <<"/", "/">>, <<"\\">>, <<"t", "u", "t", "t", "l", "e", " ", "c", "r", "e", "e", "k">>, <<"T", "u", "t", "t", "l", "e", " ", "C", "r", "e", "e", "k">>, <<"t", "u", "t", "t", "l", "e", "/", "c", "r", "e", "e", "k">>, <<"t", "i", "d", "e">>, <<"d", "i", "e", "t">>, <<"c", "r", "e", "e", "k">>, <<"U", "n", "k", "n", "o", "w", "n", " ", "d", "a", "m">>}, b \in {<<>>, <<"-", "9", "9", "9">>, <<"/">>, <<"/", "/">>, <<"\\">>, <<"t", "u", "t", "t", "l", "e", " ", "c", "r", "e", "e", "k">>, <<"T", "u", "t", "t", "l", "e", " ", "C", "r", "e", "e", "k">>, <<"t", "u", "t", "t", "l", "e", "/", "c", "r", "e", "e", "k">>, <<"t", "i", "d", "e">>, <<"d", "i", "e", "t">>, <<"c", "r", "e", "e", "k">>, <<"U", "n", "k", "n", "o", "w", "n", " ", "d", "a", "m">>}}
  \cup {Call("similar_v2", <<a, b>>) : a \in {<<>>, <<"-", "9", "9", "9">>, <<"/">>, <<"/", "/">>, <<"\\">>, <<"t", "u", "t", "t", "l", "e", " ", "c", "r", "e", "e", "k">>, <<"T", "u", "t", "t", "l", "e", " ", "C", "r", "e", "e", "k">>, <<"t", "u", "t", "t", "l", "e", "/", "c", "r", "e", "e", "k">>, <<"t", "i", "d", "e">>, <<"d", "i", "e", "t">>, <<"c", "r", "e", "e", "k">>, <<"U", "n", "k", "n", "o", "w", "n", " ", "d", "a", "m">>}, b \in {<<>>, <<"-", "9", "9", "9">>, <<"/">>, <<"/", "/">>, <<"\\">>, <<"t", "u", "t", "t", "l", "e", " ", "c", "r", "e", "e", "k">>, <<"T", "u", "t", "t", "l", "e", " ", "C", "r", "e", "e", "k">>, <<"t", "u", "t", "t", "l", "e", "/", "c", "r", "e", "e", "k">>, <<"t", "i", "d", "e">>, <<"d", "i", "e", "t">>, <<"c", "r", "e", "e", "k">>, <<"U", "n", "k", "n", "o", "w", "n", " ", "d", "a", "m">>}}
  \cup {Call("year_similar", <<a, b>>) : a \in {<<>>, <<"-", "9", "9", "9">>, <<"1", "9", "8", "4">>, <<"1", "9", "8", "5">>, <<"1", "9", "9", "0">>, <<"1", "9", "a", "4">>}, b \in {<<>>, <<"-", "9", "9", "9">>, <<"1", "9", "8", "4">>, <<"1", "9", "8", "5">>, <<"1", "9", "9", "0">>, <<"1", "9", "a", "4">>}}
  \cup {Call("river_similar", <<similarity_threshold_GM, a, b>>) :
          a \in {<<>>, <<"-", "9", "9", "9">>, <<"/", "/">>, <<"d", "o", "c", "e">>, <<"r", "i", "o", " ", "d", "o", "c", "e">>, <<"s", "e", "r", "r", "a", " ", "m", "e", "s", "a">>, <<"m", "e", "s", "a", " ", "v", "e", "r", "d", "e">>}, b \in {<<>>, <<"-", "9", "9", "9">>, <<"/", "/">>, <<"d", "o", "c", "e">>, <<"r", "i", "o", " ", "d", "o", "c", "e">>, <<"s", "e", "r", "r", "a", " ", "m", "e", "s", "a">>, <<"m", "e", "s", "a", " ", "v", "e", "r", "d", "e">>}}
  \cup {Call(f, <<IF f = "damname_similar" THEN similarity_threshold_GM
                  ELSE similarity_threshold_QA, d, n[1], n[2], g, <<"u", "s">>>>) :
          f \in {"damname_similar", "damname_similar_v2"}, d \in {<<"S", "p", "r", "i", "n", "g", "f", "i", "e", "l", "d", " ", "E", "a", "s", "t", " ", "D", "a", "m">>, <<"s", "p", "r", "i", "n", "g", "f", "i", "e", "l", "d", " ", "e", "a", "s", "t">>, <<>>, <<"-", "9", "9", "9">>, <<"/", "/">>, <<"t", "u", "t", "t", "l", "e", " ", "c", "r", "e", "e", "k">>, <<"T", "u", "t", "t", "l", "e", " ", "C", "r", "e", "e", "k", " ", "1">>, <<"T", "u", "t", "t", "l", "e", " ", "C", "r", "e", "e", "k", " ", "I">>, <<"t", "u", "t", "t", "l", "e", " ", "c", "r", "e", "e", "k", " ", "1">>, <<"t", "u", "t", "t", "l", "e", " ", "c", "r", "e", "e", "k", " ", "i">>, <<"s", "e", "r", "r", "a", " ", "m", "e", "s", "a">>},
          n \in {<<<<>>, <<>>>>, <<<<"t", "u", "t", "t", "l", "e", " ", "c", "r", "e", "e", "k">>, <<>>>>, <<<<>>, <<"t", "u", "t", "t", "l", "e", " ", "c", "r", "e", "e", "k">>>>}, g \in {<<"S", "p", "r", "i", "n", "g", "f", "i", "e", "l", "d", " ", "D", "a", "m">>, <<"s", "p", "r", "i", "n", "g", "f", "i", "e", "l", "d">>, <<>>, <<"n", "o", "t", " ", "f", "o", "u", "n", "d">>, <<"t", "u", "t", "t", "l", "e", " ", "c", "r", "e", "e", "k">>, <<"T", "u", "t", "t", "l", "e", " ", "C", "r", "e", "e", "k", " ", "1">>, <<"T", "u", "t", "t", "l", "e", " ", "C", "r", "e", "e", "k", " ", "2">>, <<"t", "u", "t", "t", "l", "e", " ", "c", "r", "e", "e", "k", " ", "1">>, <<"m", "e", "s", "a", " ", "v", "e", "r", "d", "e">>}}
  \cup {Call("containment_check", <<a, b>>) : a \in {<<"S", "p", "r", "i", "n", "g", "f", "i", "e", "l", "d">>, <<"C", "i", "t", "y", " ", "o", "f", " ", "S", "p", "r", "i", "n", "g", "f", "i", "e", "l", "d">>, <<"S", "p", "r", "i", "n", "g", "f", "i", "e", "l", "d", "v", "i", "l", "l", "e">>, <<"s", "p", "r", "i", "n", "g", "f", "i", "e", "l", "d">>, <<"s", "p", "r", "i", "n", "g", "f", "i", "e", "l", "d", " ", "c", "i", "t", "y">>, <<"n", "o", "r", "t", "h", "-", "s", "p", "r", "i", "n", "g", "f", "i", "e", "l", "d">>, <<"c", "i", "t", "y", " ", "o", "f", " ", "s", "p", "r", "i", "n", "g", "f", "i", "e", "l", "d", " ", "n", "o", "r", "t", "h">>, <<"s", "p", "r", "i", "n", "g", "f", "i", "e", "l", "d", "s", " ", "s", "p", "r", "i", "n", "g", "f", "i", "e", "l", "d">>}, b \in {<<"S", "p", "r", "i", "n", "g", "f", "i", "e", "l", "d">>, <<"C", "i", "t", "y", " ", "o", "f", " ", "S", "p", "r", "i", "n", "g", "f", "i", "e", "l", "d">>, <<"S", "p", "r", "i", "n", "g", "f", "i", "e", "l", "d", "v", "i", "l", "l", "e">>, <<"s", "p", "r", "i", "n", "g", "f", "i", "e", "l", "d">>, <<"s", "p", "r", "i", "n", "g", "f", "i", "e", "l", "d", " ", "c", "i", "t", "y">>, <<"n", "o", "r", "t", "h", "-", "s", "p", "r", "i", "n", "g", "f", "i", "e", "l", "d">>, <<"c", "i", "t", "y", " ", "o", "f", " ", "s", "p", "r", "i", "n", "g", "f", "i", "e", "l", "d", " ", "n", "o", "r", "t", "h">>, <<"s", "p", "r", "i", "n", "g", "f", "i", "e", "l", "d", "s", " ", "s", "p", "r", "i", "n", "g", "f", "i", "e", "l", "d">>}}
  \cup {Call("remove_accents", <<a>>) : a \in {<<>>, <<"d", "o", "c", "e">>, <<"s", "a_tilde", "o">>, <<"f", "e", "i", "j", "e_acute">>, <<"m", "superscript_2">>, <<"u_diaeresis_acute">>, <<"u_diaeresis", "combining_acute">>, <<"a", "combining_tilde">>}}
  \cup {Call("China_title", <<side, a, iso>>) :
          side \in {"WRD", "google"}, a \in {<<"a", "n", "j", "i", " ", "x", "i", "a", "n">>, <<"a", "n", "j", "i", "x", "i", "a", "n">>, <<"a", "n", "j", "i", " ", "s", "h", "i">>, <<"a", "n", "j", "i", "s", "h", "i">>, <<"a", "n", "j", "i", " ", "q", "u">>, <<"a", "n", "j", "i", "q", "u">>, <<"a", "n", "j", "i">>, <<"l", "i", "q", "u">>},
          iso \in {<<"c", "n">>, <<"u", "s">>}}

InitFn ==
  /\ script = "functions" /\ raised = "none" /\ closed = FALSE
  /\ infile_rows = <<>> /\ ii = 0
  /\ call \in Calls /\ result = Ok(0)
  /\ Idle

\* the call of f has not been made yet
Pending(f) == script = "functions" /\ call.f = f /\ ~call.done

\* the function returns v or raises: the call is over
Return(v) ==
  /\ result' = v
  /\ call' = [call EXCEPT !.done = TRUE]
  /\ UNCHANGED <<script, raised, closed, infile_rows, ii, considered_IDs, outfile_sheet,
                 QA_rank, registry, reg_i, QA_mark, reg_i_QA_array, OUT_sheet, geocoding, retrieval>>

Call_similar == Pending("similar") /\ Return(similar(call.args[1], call.args[2]))

Call_similar_v2 == Pending("similar_v2") /\ Return(Ok(similar_v2(call.args[1], call.args[2])))

Call_year_similar ==
  Pending("year_similar") /\ Return(Ok(year_similar(call.args[1], call.args[2])))

Call_river_similar ==
  Pending("river_similar") /\ Return(river_similar(call.args[1], call.args[2], call.args[3]))

Call_damname_similar ==
  /\ Pending("damname_similar")
  /\ Return(damname_similar(call.args[1], call.args[2], call.args[3], call.args[4],
                            call.args[5], call.args[6]))

Call_damname_similar_v2 ==
  /\ Pending("damname_similar_v2")
  /\ Return(damname_similar_v2(call.args[1], call.args[2], call.args[3], call.args[4],
                               call.args[5], call.args[6]))

\* the containment loops of Geomatching_ICOLD.py on one WRD name and one register name
Call_containment_check ==
  /\ Pending("containment_check")
  /\ Return(Ok(containment_check(<<call.args[2]>>, <<call.args[1]>>)))

Call_remove_accents == Pending("remove_accents") /\ Return(Ok(remove_accents(call.args[1])))

(* ------------------------------------------------------------------ *)
(* Geocoding_ICOLD.py: the match scenario of a geocoding solution      *)
(* ------------------------------------------------------------------ *)

similarity_threshold_GC == <<5, 6>>

\* the countries of Google Maps that the WRD lists under another country
territories ==
  {<<"t", "w">>, <<"h", "k">>, <<"f", "o">>, <<"g", "l">>, <<"p", "r">>, <<"r", "e">>, <<"g", "p">>, <<"m", "q">>, <<"y", "t">>, <<"i", "m">>, <<"j", "e">>, <<"g", "g">>, <<"g", "u">>}

\* the types of the address components that name a division
division_types ==
  [country |-> <<"country", "political">>,
   admin_1 |-> <<"administrative_area_level_1", "political">>,
   admin_2 |-> <<"administrative_area_level_2", "political">>,
   admin_3 |-> <<"administrative_area_level_3", "political">>,
   admin_4 |-> <<"administrative_area_level_4", "political">>,
   admin_5 |-> <<"administrative_area_level_5", "political">>,
   locality |-> <<"locality", "political">>,
   locality_1 |-> <<"political", "sublocality", "sublocality_level_1">>,
   locality_2 |-> <<"political", "sublocality", "sublocality_level_2">>]

\* the divisions of a solution: the first address component of each type, '-999' when
\* there is none; the names lower-cased and trimmed, and then without accents
divisions(this_geodata) ==
  LET First(a, found) ==
        IF found = {} THEN [long_name |-> <<"-", "9", "9", "9">>, short_name |-> <<"-", "9", "9", "9">>] ELSE a[SetMin(found)]
      Names(a_i) ==
        [longname |-> Strip(Lower(a_i.long_name)),
         shortname |-> Strip(Lower(a_i.short_name)),
         longname_ascii |-> remove_accents(Strip(Lower(a_i.long_name))),
         shortname_ascii |-> remove_accents(Strip(Lower(a_i.short_name)))]
      Division(a, types) == Names(First(a, {i \in 1..Len(a) : a[i].types = types}))
  IN [d \in DOMAIN division_types |->
        Division(this_geodata.address_components, division_types[d])]

\* the long and the short name without accents of each of the divisions listed
RECURSIVE google_array(_, _)
google_array(d, levels) ==
  IF levels = <<>> THEN <<>>
  ELSE <<d[Head(levels)].longname_ascii, d[Head(levels)].shortname_ascii>>
       \o google_array(d, Tail(levels))

\* the state compared with the short name of admin_1 alone
state_matched_short_name(state_province_ascii, this_country_ISO, d) ==
  state_province_ascii = d.admin_1.shortname_ascii

\* max(similarity_metric_state_array) >= similarity_threshold or containment_check_state == 1
state_matched(state_province_ascii, this_country_ISO, d) ==
  LET Matched(google_state_arrays, confused) ==
        \/ /\ ~confused
           /\ \E i \in 1..Len(google_state_arrays) :
                FracGE(similar_v2(google_state_arrays[i], state_province_ascii),
                       similarity_threshold_GC)
        \/ \E i \in 1..Len(google_state_arrays) :
             Containment(state_province_ascii, google_state_arrays[i])
  IN Matched((IF d.country.shortname \in territories THEN <<d.country.longname_ascii>> ELSE <<>>)
             \o google_array(d, <<"admin_1", "admin_2", "admin_3">>),
             /\ this_country_ISO = <<"c", "n">>
             /\ \/ /\ state_province_ascii = <<"s", "h", "a", "n", "x", "i">>
                   /\ d.admin_1.longname_ascii \in {<<"s", "h", "a", "a", "n", "x", "i">>, <<"s", "h", "a", "a", "n", "x", "i", " ", "s", "h", "e", "n", "g">>, <<"s", "h", "a", "a", "n", "x", "i", " ", "p", "r", "o", "v", "i", "n", "c", "e">>}
                \/ /\ state_province_ascii = <<"s", "h", "a", "a", "n", "x", "i">>
                   /\ d.admin_1.longname_ascii \in {<<"s", "h", "a", "n", "x", "i">>, <<"s", "h", "a", "n", "x", "i", " ", "s", "h", "e", "n", "g">>, <<"s", "h", "a", "n", "x", "i", " ", "p", "r", "o", "v", "i", "n", "c", "e">>})

\* the name of a town of China without its title
China_title_removed(name, this_country_ISO, longer_than, titles) ==
  LET Cut(with_title) ==
        IF with_title = {} THEN name
        ELSE Strip(Lower(SubSeq(name, 1, Len(name) - Len(titles[SetMin(with_title)]))))
  IN IF Len(name) > longer_than /\ this_country_ISO = <<"c", "n">>
     THEN Cut({k \in 1..Len(titles) : Tail_n(name, Len(titles[k])) = titles[k]})
     ELSE name

\* the town of the WRD without its title: 'xian', 'shi' or 'qu' at the end of a town
\* longer than 4
China_town_ascii(town_ascii, this_country_ISO) ==
  China_title_removed(town_ascii, this_country_ISO, 4, <<<<"x", "i", "a", "n">>, <<"s", "h", "i">>, <<"q", "u">>>>)

\* a division of the geocoding output without its title: ' sheng', ' xian', ' shi' or
\* ' qu' at the end of a name longer than 5
China_google_i(google_i, this_country_ISO) ==
  China_title_removed(google_i, this_country_ISO, 5,
                      <<<<" ", "s", "h", "e", "n", "g">>, <<" ", "x", "i", "a", "n">>, <<" ", "s", "h", "i">>, <<" ", "q", "u">>>>)

\* the removal of the title of a town of China in Geocoding_ICOLD.py, from the town of the
\* WRD or from a division of the geocoding output
Call_China_title ==
  /\ Pending("China_title")
  /\ Return(Ok(IF call.args[1] = "WRD" THEN China_town_ascii(call.args[2], call.args[3])
               ELSE China_google_i(call.args[2], call.args[3])))

\* max(similarity_metric_town_array) >= similarity_threshold or
\* max(China_similarity_metric_town_array) >= similarity_threshold or containment_check_town == 1
town_matched(town_ascii, this_country_ISO, d) ==
  LET Matched(google_town_arrays, China_town) ==
        \E i \in 1..Len(google_town_arrays) :
          \/ FracGE(similar_v2(google_town_arrays[i], town_ascii), similarity_threshold_GC)
          \/ FracGE(similar_v2(China_google_i(google_town_arrays[i], this_country_ISO),
                               China_town), similarity_threshold_GC)
          \/ Containment(town_ascii, google_town_arrays[i])
  IN Matched(google_array(d, <<"admin_3", "admin_4", "admin_5", "locality", "locality_1",
                               "locality_2", "admin_2">>
                             \o (IF d.country.shortname \in territories THEN <<"admin_1">>
                                 ELSE <<>>)),
             China_town_ascii(town_ascii, this_country_ISO))

\* the lists of types of a feature that may be a dam or a reservoir
feature_types ==
  {<<"establishment", "natural_feature">>,
   <<"establishment", "park", "point_of_interest">>,
   <<"premise">>,
   <<"establishment", "point_of_interest", "premise">>,
   <<"establishment", "point_of_interest">>,
   <<"campground", "establishment", "lodging", "park", "point_of_interest">>,
   <<"establishment", "general_contractor", "point_of_interest">>}

\* every list of types taken for the types of a feature
wrong_type_none(this_geodata) == 0

wrong_type(this_geodata) == IF this_geodata.types \notin feature_types THEN 1 ELSE 0

\* the ladder without the test of the country code of the solution
match_scenario_any_country(state_province_ascii, town_ascii, this_country_ISO, this_geodata, d, particular_damname_similar) ==
  LET match == IF this_geodata.partial_match = "true" THEN "partial-match" ELSE "complete-match"
      Later(scenario) == [match_scenario |-> <<match>> \o scenario, best |-> FALSE]
      Best(scenario) ==
        [match_scenario |-> <<match>> \o scenario,
         best |-> match = "complete-match" /\ particular_damname_similar = 10]
      town_unknown ==
        \A level \in {"admin_1", "admin_2", "admin_3", "admin_4", "admin_5",
                      "locality", "locality_1", "locality_2"} : d[level].longname_ascii = <<"-", "9", "9", "9">>
      state_unknown ==
        /\ \A level \in {"admin_1", "admin_2", "admin_3"} : d[level].longname_ascii = <<"-", "9", "9", "9">>
        /\ d.country.shortname \notin territories
  IN IF wrong_type(this_geodata) # 0 THEN [match_scenario |-> <<"bad:", "non-feature">>, best |-> FALSE]
     ELSE IF d.country.longname_ascii = <<"-", "9", "9", "9">> THEN Later(<<"unknown-country">>)
     ELSE IF state_province_ascii = <<>>
     THEN IF town_ascii = <<>> THEN Best(<<"unknown-state-town">>)
          ELSE IF town_unknown THEN Later(<<"unknown-state-town">>)
          ELSE IF town_matched(town_ascii, this_country_ISO, d) THEN Best(<<"in-town">>)
          ELSE Later(<<"out-town">>)
     ELSE IF state_unknown
     THEN IF town_ascii = <<>> \/ town_unknown THEN Later(<<"unknown-state-town">>)
          ELSE IF town_matched(town_ascii, this_country_ISO, d) THEN Later(<<"in-town">>)
          ELSE Later(<<"out-town">>)
     ELSE IF state_matched(state_province_ascii, this_country_ISO, d)
     THEN IF match = "partial-match" THEN Later(<<"in-state">>)
          ELSE IF town_ascii = <<>> THEN Best(<<"in-state", "unknown-town">>)
          ELSE IF town_unknown THEN Later(<<"in-state", "unknown-town">>)
          ELSE IF town_matched(town_ascii, this_country_ISO, d) THEN Best(<<"in-state", "in-town">>)
          ELSE Later(<<"in-state", "out-town">>)
     ELSE Later(<<"out-state">>)

\* the quality scenario of a solution, word by word, and whether the solution is the best
\* possible one of the record, which is then written at once
match_scenario(state_province_ascii, town_ascii, this_country_ISO, this_geodata, d, particular_damname_similar) ==
  LET match == IF this_geodata.partial_match = "true" THEN "partial-match" ELSE "complete-match"
      Later(scenario) == [match_scenario |-> <<match>> \o scenario, best |-> FALSE]
      Best(scenario) ==
        [match_scenario |-> <<match>> \o scenario,
         best |-> match = "complete-match" /\ particular_damname_similar = 10]
      town_unknown ==
        \A level \in {"admin_1", "admin_2", "admin_3", "admin_4", "admin_5",
                      "locality", "locality_1", "locality_2"} : d[level].longname_ascii = <<"-", "9", "9", "9">>
      state_unknown ==
        /\ \A level \in {"admin_1", "admin_2", "admin_3"} : d[level].longname_ascii = <<"-", "9", "9", "9">>
        /\ d.country.shortname \notin territories
  IN IF wrong_type(this_geodata) # 0 THEN [match_scenario |-> <<"bad:", "non-feature">>, best |-> FALSE]
     ELSE IF d.country.longname_ascii = <<"-", "9", "9", "9">> THEN Later(<<"unknown-country">>)
     ELSE IF d.country.shortname # this_country_ISO THEN Later(<<"out-country">>)
     ELSE IF state_province_ascii = <<>>
     THEN IF town_ascii = <<>> THEN Best(<<"unknown-state-town">>)
          ELSE IF town_unknown THEN Later(<<"unknown-state-town">>)
          ELSE IF town_matched(town_ascii, this_country_ISO, d) THEN Best(<<"in-town">>)
          ELSE Later(<<"out-town">>)
     ELSE IF state_unknown
     THEN IF town_ascii = <<>> \/ town_unknown THEN Later(<<"unknown-state-town">>)
          ELSE IF town_matched(town_ascii, this_country_ISO, d) THEN Later(<<"in-town">>)
          ELSE Later(<<"out-town">>)
     ELSE IF state_matched(state_province_ascii, this_country_ISO, d)
     THEN IF match = "partial-match" THEN Later(<<"in-state">>)
          ELSE IF town_ascii = <<>> THEN Best(<<"in-state", "unknown-town">>)
          ELSE IF town_unknown THEN Later(<<"in-state", "unknown-town">>)
          ELSE IF town_matched(town_ascii, this_country_ISO, d) THEN Best(<<"in-state", "in-town">>)
          ELSE Later(<<"in-state", "out-town">>)
     ELSE Later(<<"out-state">>)

\* the matching scenarios in descending order of preference
result_scenario_list ==
  << <<"complete-match", "in-state", "in-town">>, <<"complete-match", "in-state", "unknown-town">>,
     <<"complete-match", "in-state", "out-town">>, <<"partial-match", "in-state">>,
     <<"complete-match", "in-town">>, <<"partial-match", "in-town">>,
     <<"complete-match", "unknown-state-town">>, <<"partial-match", "unknown-state-town">>,
     <<"complete-match", "out-town">>, <<"partial-match", "out-town">>,
     <<"complete-match", "out-state">>, <<"partial-match", "out-state">>,
     <<"complete-match", "unknown-country">>, <<"partial-match", "unknown-country">>,
     <<"complete-match", "out-country">>, <<"partial-match", "out-country">>,
     <<"bad:", "non-feature">>, <<"bad:", "no-result">> >>

\* the addresses of a record in the order they are sent: each scenario with the country
\* component, then each scenario without it, less the addresses already in the list
encoded_addr_array_unique(rec) ==
  LET Unique(all, first) == [i \in 1..Cardinality(first) |-> all[Ascending(first)[i]]]
      First(all) ==
        Unique(all, {k \in 1..Len(all) : \A j \in 1..(k - 1) : all[j].encoded_addr # all[k].encoded_addr})
      All(Sc) ==
        First([k \in 1..(2 * Len(Sc)) |->
                 [text_encoded_addr |-> text_encoded_addr(Sc[((k - 1) % Len(Sc)) + 1]),
                  encoded_addr |-> encoded_addr(text_encoded_addr(Sc[((k - 1) % Len(Sc)) + 1]),
                                                k <= Len(Sc), rec.this_country_ISO)]])
  IN All(Sc_list(rec))

\* what the arrays of the output hold for one solution, or for an address without result
solution(addr, status, this_geodata) ==
  [lat_lng |-> this_geodata.location, divisions |-> divisions(this_geodata),
   text_encoded_addr |-> addr.text_encoded_addr, encoded_addr |-> addr.encoded_addr,
   google_dam_name |-> IF status # "OK" THEN <<"-", "9", "9", "9">>
                       ELSE IF this_geodata.address_components = <<>> THEN <<>>
                       ELSE this_geodata.address_components[1].long_name]

\* the loads in the order of the loop: one entry for each solution of an address with
\* status OK, one for an address with another status
RECURSIVE solutions_from(_, _, _)
solutions_from(addrs, loads, k) ==
  IF k > Len(addrs) \/ k > Len(loads) THEN <<>>
  ELSE (IF loads[k].status = "OK"
        THEN [j \in 1..Len(loads[k].results) |->
                [load |-> k, status |-> "OK", this_geodata |-> loads[k].results[j]]]
        ELSE <<[load |-> k, status |-> loads[k].status,
                this_geodata |-> [location |-> <<"-", "9", "9", "9">>, address_components |-> <<>>]]>>)
       \o solutions_from(addrs, loads, k + 1)

\* the loop over the solutions from the i-th on: the arrays grow until a solution is the
\* best possible one, which is written at once with the text of the last scenario
RECURSIVE geocode_from(_, _, _, _, _, _)
geocode_from(rec, addrs, all, i, arrays, scenarios) ==
  LET Left(exc, found, loaded, grown, best) ==
        [exc |-> exc, success |-> found, loaded |-> loaded, arrays |-> grown,
         match_scenario_array |-> scenarios, best |-> best]
  IN IF i > Len(all) THEN Left("none", "No", Len(addrs), arrays, <<>>)
     ELSE IF all[i].status = "OVER_QUERY_LIMIT"
     THEN Left("SystemExit", "No", all[i].load, arrays, <<>>)
     ELSE IF all[i].status # "OK"
     THEN geocode_from(rec, addrs, all, i + 1,
                       Append(arrays, solution(addrs[all[i].load], all[i].status, all[i].this_geodata)),
                       Append(scenarios, <<"bad:", "no-result">>))
     ELSE LET Labelled(this, scenario) ==
                IF scenario.best
                THEN Left("none", "Yes", all[i].load, Append(arrays, this),
                          <<[this EXCEPT !.text_encoded_addr = addrs[Len(addrs)].text_encoded_addr]
                            @@ [match_scenario |-> scenario.match_scenario]>>)
                ELSE geocode_from(rec, addrs, all, i + 1, Append(arrays, this),
                                  Append(scenarios, scenario.match_scenario))
              Named(this, particular_damname_similar) ==
                IF particular_damname_similar.exc # "none"
                THEN Left(particular_damname_similar.exc, "No", all[i].load, Append(arrays, this), <<>>)
                ELSE Labelled(this,
                              match_scenario(remove_accents(rec.state_province),
                                             remove_accents(rec.town_original),
                                             rec.this_country_ISO, all[i].this_geodata,
                                             this.divisions, particular_damname_similar.val))
              Solution(this) ==
                Named(this, damname_similar_v2(similarity_threshold_GC, rec.dam_name,
                                               rec.dam_other_name, rec.reservoir_name,
                                               this.google_dam_name, rec.this_country_ISO))
          IN Solution(solution(addrs[all[i].load], "OK", all[i].this_geodata))

\* row_records_array with the first solution at each pair of coordinates, whatever its
\* scenario
row_records_array_first(arrays, scenarios) ==
  LET preference(i) ==
        SetMin({r \in 1..Len(result_scenario_list) : result_scenario_list[r] = scenarios[i]})
      Before(f, g) ==
        \/ preference(f) < preference(g)
        \/ preference(f) = preference(g) /\ f < g
      Sorted(first) ==
        [n \in 1..Cardinality(first) |->
           LET f == CHOOSE f \in first : Cardinality({g \in first : Before(g, f)}) = n - 1
           IN arrays[f] @@ [match_scenario |-> scenarios[f]]]
  IN Sorted({i \in 1..Len(arrays) : \A j \in 1..(i - 1) : arrays[j].lat_lng # arrays[i].lat_lng})

\* the rows written when no solution is the best possible one: of the solutions at each
\* pair of coordinates the first one of the most preferred scenario, and these in the
\* order of preference of their scenarios
row_records_array(arrays, scenarios) ==
  LET preference(i) ==
        SetMin({r \in 1..Len(result_scenario_list) : result_scenario_list[r] = scenarios[i]})
      Final(f) ==
        CHOOSE i \in 1..Len(arrays) :
          /\ arrays[i].lat_lng = arrays[f].lat_lng
          /\ \A j \in 1..Len(arrays) :
               arrays[j].lat_lng = arrays[f].lat_lng =>
                 \/ preference(i) < preference(j)
                 \/ preference(i) = preference(j) /\ i <= j
      Before(f, g) ==
        \/ preference(Final(f)) < preference(Final(g))
        \/ preference(Final(f)) = preference(Final(g)) /\ f < g
      Sorted(first) ==
        [n \in 1..Cardinality(first) |->
           LET f == CHOOSE f \in first : Cardinality({g \in first : Before(g, f)}) = n - 1
           IN arrays[Final(f)] @@ [match_scenario |-> scenarios[Final(f)]]]
  IN Sorted({i \in 1..Len(arrays) : \A j \in 1..(i - 1) : arrays[j].lat_lng # arrays[i].lat_lng})

\* the geocoding of one WRD record under the loads the geocoder answers with
geocode(rec, loads) ==
  LET Done(left) ==
        [left EXCEPT !.best = IF left.exc = "none" /\ left.success = "No"
                              THEN row_records_array(left.arrays, left.match_scenario_array)
                              ELSE left.best]
      Loop(addrs) == Done(geocode_from(rec, addrs, solutions_from(addrs, loads, 1), 1, <<>>, <<>>))
  IN Loop(encoded_addr_array_unique(rec))
(* ------------------------------------------------------------------ *)
(* Geocoding_ICOLD.py: the runs explored                               *)
(* ------------------------------------------------------------------ *)

MaxLoads == 2

\* a solution of the geocoder: the feature, then the divisions it lies in
Geodata(name, types, partial_match, location, components) ==
  [address_components |->
     <<[long_name |-> name, short_name |-> name, types |-> types]>> \o components,
   types |-> types, partial_match |-> partial_match, location |-> location]

Component(long_name, short_name, types) ==
  [long_name |-> long_name, short_name |-> short_name, types |-> types]

\* the solutions the geocoder answers with: the feature asked for in Kansas, the same
\* with types of a feature that is no dam, in Canada, in a town of Kansas and as a
\* partial match, and another dam, of Canada
geodata_pool ==
  LET us == Component(<<"U", "n", "i", "t", "e", "d", " ", "S", "t", "a", "t", "e", "s">>, <<"U", "S">>, division_types.country)
      ca == Component(<<"C", "a", "n", "a", "d", "a">>, <<"C", "A">>, division_types.country)
      kansas == Component(<<"K", "a", "n", "s", "a", "s">>, <<"K", "S">>, division_types.admin_1)
      manitoba == Component(<<"M", "a", "n", "i", "t", "o", "b", "a">>, <<"M", "B">>, division_types.admin_1)
      manhattan == Component(<<"M", "a", "n", "h", "a", "t", "t", "a", "n">>, <<"M", "a", "n", "h", "a", "t", "t", "a", "n">>, division_types.locality)
      dam == <<"establishment", "point_of_interest">>
  IN {Geodata(<<"T", "u", "t", "t", "l", "e", " ", "C", "r", "e", "e", "k", " ", "D", "a", "m">>, dam, "absent", <<"1">>, <<kansas, us>>),
      Geodata(<<"T", "u", "t", "t", "l", "e", " ", "C", "r", "e", "e", "k", " ", "D", "a", "m">>, <<"locality", "political">>, "absent", <<"1">>, <<kansas, us>>),
      Geodata(<<"T", "u", "t", "t", "l", "e", " ", "C", "r", "e", "e", "k", " ", "D", "a", "m">>, dam, "absent", <<"2">>, <<manitoba, ca>>),
      Geodata(<<"T", "u", "t", "t", "l", "e", " ", "C", "r", "e", "e", "k", " ", "D", "a", "m">>, dam, "false", <<"3">>, <<manhattan, kansas, us>>),
      Geodata(<<"T", "u", "t", "t", "l", "e", " ", "C", "r", "e", "e", "k", " ", "D", "a", "m">>, dam, "true", <<"1">>, <<kansas, us>>),
      Geodata(<<"M", "i", "l", "f", "o", "r", "d", " ", "D", "a", "m">>, <<"establishment", "natural_feature">>, "absent", <<"1">>, <<manitoba, ca>>)}

\* what the geocoder answers to one address: nothing, that the quota is exceeded, one
\* solution that has the name asked for, or the other dam and then the feature that is
\* no dam
load_pool ==
  {[status |-> "ZERO_RESULTS", results |-> <<>>], [status |-> "OVER_QUERY_LIMIT", results |-> <<>>]}
  \cup {[status |-> "OK", results |-> <<g>>] :
          g \in {x \in geodata_pool : x.types # <<"establishment", "natural_feature">>}}
  \cup {[status |-> "OK", results |-> <<g, h>>] :
          g \in {x \in geodata_pool : x.types = <<"establishment", "natural_feature">>},
          h \in {x \in geodata_pool : x.types = <<"locality", "political">>}}

\* the records of the file: the name is Tuttle Creek, with or without state and town; a
\* record may have two rows, and a record without name may follow
InitGC ==
  /\ script = "Geocoding_ICOLD" /\ raised = "none" /\ closed = FALSE
  /\ \E first \in {Attributes(<<"T", "u", "t", "t", "l", "e", " ", "C", "r", "e", "e", "k">>, <<>>, <<>>, <<"k", "a", "n", "s", "a", "s">>, <<>>, <<"u", "s">>),
                   Attributes(<<"T", "u", "t", "t", "l", "e", " ", "C", "r", "e", "e", "k">>, <<>>, <<>>, <<"K", "a", "n", "s", "a", "s">>, <<"M", "a", "n", "h", "a", "t", "t", "a", "n">>, <<"u", "s">>),
                   Attributes(<<>>, <<>>, <<"T", "u", "t", "t", "l", "e", " ", "C", "r", "e", "e", "k", " ", "L", "a", "k", "e">>, <<>>, <<"c", "i", "t", "y", " ", "o", "f", " ", "m", "a", "n", "h", "a", "t", "t", "a", "n">>, <<"u", "s">>),
                   Attributes(<<"T", "u", "t", "t", "l", "e", " ", "C", "r", "e", "e", "k">>, <<>>, <<>>, <<>>, <<>>, <<"u", "s">>),
                   Attributes(<<>>, <<>>, <<>>, <<"k", "a", "n", "s", "a", "s">>, <<>>, <<"u", "s">>)},
        more \in {<<>>, <<[ICOLDID |-> 1] @@ Attributes(<<"M", "i", "l", "f", "o", "r", "d">>, <<>>, <<>>, <<>>, <<>>, <<"u", "s">>)>>,
                  <<[ICOLDID |-> 2] @@ Attributes(<<>>, <<>>, <<>>, <<"k", "a", "n", "s", "a", "s">>, <<>>, <<"u", "s">>)>>} :
       /\ more # <<>> => first.town_original = <<>> /\ first.state_province # <<>>
       /\ infile_rows = <<[ICOLDID |-> 1] @@ first>> \o more
  /\ ii = 0 /\ considered_IDs = <<>> /\ outfile_sheet = <<>> /\ geocoded_sheet = <<>>
  /\ success = "No" /\ match_scenario_array = <<>> /\ geodata = <<>>
  /\ Idle

RunsGC == script = "Geocoding_ICOLD" /\ raised = "none" /\ ~closed

\* row_number == 1: the header is written with the columns of the geocoding added
GC_Header ==
  /\ RunsGC /\ ii = 0
  /\ geocoded_sheet' =
       Append(geocoded_sheet, [row |-> [ICOLDID |-> 0], gc |-> [match_scenario |-> <<"gc_scenario">>]])
  /\ ii' = 1
  /\ UNCHANGED <<script, raised, closed, infile_rows, considered_IDs, outfile_sheet, QA_rank,
                 registry, reg_i, QA_mark, reg_i_QA_array, OUT_sheet, call, result,
                 success, match_scenario_array, geodata, retrieval>>

\* a row whose ICOLD ID has been geocoded: nothing is done
GC_Skip ==
  /\ RunsGC /\ ii \in 1..Len(infile_rows)
  /\ \E k \in 1..Len(considered_IDs) : considered_IDs[k] = infile_rows[ii].ICOLDID
  /\ ii' = ii + 1
  /\ UNCHANGED <<script, raised, closed, infile_rows, considered_IDs, outfile_sheet, geocoded_sheet, QA_rank,
                 registry, reg_i, QA_mark, reg_i_QA_array, OUT_sheet, call, result,
                 success, match_scenario_array, geodata, retrieval>>

\* a record without any name: flag values are written
GC_NoName ==
  /\ RunsGC /\ ii \in 1..Len(infile_rows)
  /\ \A k \in 1..Len(considered_IDs) : considered_IDs[k] # infile_rows[ii].ICOLDID
  /\ Attr(infile_rows[ii]).dam_name = <<>> /\ Attr(infile_rows[ii]).dam_other_name = <<>>
  /\ Attr(infile_rows[ii]).reservoir_name = <<>>
  /\ considered_IDs' = Append(considered_IDs, infile_rows[ii].ICOLDID)
  /\ geocoded_sheet' =
       Append(geocoded_sheet,
              [row |-> infile_rows[ii],
               gc |-> solution([text_encoded_addr |-> <<"-", "9", "9", "9">>, encoded_addr |-> <<"-", "9", "9", "9">>], "none",
                               [location |-> <<"-", "9", "9", "9">>, address_components |-> <<>>])
                      @@ [match_scenario |-> <<"bad:", "no-name">>]])
  /\ success' = "Yes"
  /\ ii' = ii + 1
  /\ UNCHANGED <<script, raised, closed, infile_rows, outfile_sheet, QA_rank,
                 registry, reg_i, QA_mark, reg_i_QA_array, OUT_sheet, call, result,
                 match_scenario_array, geodata, retrieval>>

\* a record with a name: its addresses are sent one after the other, and either the best
\* possible solution is written at once, or the solutions found at each location are
\* written; the geocoder finds nothing for the addresses after the first MaxLoads
GC_Geocode ==
  /\ RunsGC /\ ii \in 1..Len(infile_rows)
  /\ \A k \in 1..Len(considered_IDs) : considered_IDs[k] # infile_rows[ii].ICOLDID
  /\ \/ Attr(infile_rows[ii]).dam_name # <<>> \/ Attr(infile_rows[ii]).dam_other_name # <<>>
     \/ Attr(infile_rows[ii]).reservoir_name # <<>>
  /\ considered_IDs' = Append(considered_IDs, infile_rows[ii].ICOLDID)
  /\ LET Geocoded(loads, left) ==
           /\ geodata' = SubSeq(loads, 1, left.loaded)
           /\ success' = left.success
           /\ match_scenario_array' = left.match_scenario_array
           /\ raised' = left.exc
           /\ closed' = (left.exc = "SystemExit")
           /\ IF left.exc = "none"
              THEN /\ geocoded_sheet' =
                        geocoded_sheet \o [k \in 1..Len(left.best) |->
                                            [row |-> infile_rows[ii], gc |-> left.best[k]]]
                   /\ ii' = ii + 1
              ELSE UNCHANGED <<geocoded_sheet, ii>>
         Loads(rec, n) ==
           \E first \in [1..(IF n < MaxLoads THEN n ELSE MaxLoads) -> load_pool] :
             LET loads == [k \in 1..n |-> IF k \in DOMAIN first THEN first[k]
                                          ELSE [status |-> "ZERO_RESULTS", results |-> <<>>]]
             IN Geocoded(loads, geocode(rec, loads))
     IN Loads(Attr(infile_rows[ii]), Len(encoded_addr_array_unique(Attr(infile_rows[ii]))))
  /\ UNCHANGED <<script, infile_rows, outfile_sheet, QA_rank,
                 registry, reg_i, QA_mark, reg_i_QA_array, OUT_sheet, call, result, retrieval>>

\* after the loop: outfile_obj.close()
GC_Close ==
  /\ RunsGC /\ ii = Len(infile_rows) + 1
  /\ closed' = TRUE
  /\ UNCHANGED <<script, raised, infile_rows, ii, considered_IDs, outfile_sheet, geocoded_sheet, QA_rank,
                 registry, reg_i, QA_mark, reg_i_QA_array, OUT_sheet, call, result,
                 success, match_scenario_array, geodata, retrieval>>

(* ------------------------------------------------------------------ *)
(* From the output of Geocoding_ICOLD.py to the input of Geocoding_QA.py *)
(* ------------------------------------------------------------------ *)

\* The file Geocoding_QA.py reads is the output of Geocoding_ICOLD.py after another round
\* of reverse geocoding, which is not part of the scripts. Its columns 82 and 83 hold the
\* precision of the match and the tiers of country, state and town: those the scenario of
\* Geocoding_ICOLD.py states are kept, and a tier it leaves open is unknown when the record
\* or the solution names no such division, and passes or fails as the comparison of
\* Geocoding_ICOLD.py does
tiers_of(rec, gc) ==
  LET scenario == Tail(gc.match_scenario)
      named(levels) == \E level \in levels : gc.divisions[level].longname_ascii # <<"-", "9", "9", "9">>
      state ==
        IF rec.state_province = <<>> \/ ~named({"admin_1", "admin_2", "admin_3"})
        THEN "unknown-state"
        ELSE IF state_matched(remove_accents(rec.state_province), rec.this_country_ISO, gc.divisions)
        THEN "in-state" ELSE "out-state"
      town ==
        IF rec.town_original = <<>>
           \/ ~named({"admin_2", "admin_3", "admin_4", "admin_5", "locality", "locality_1", "locality_2"})
        THEN "unknown-town"
        ELSE IF town_matched(remove_accents(rec.town_original), rec.this_country_ISO, gc.divisions)
        THEN "in-town" ELSE "out-town"
  IN IF gc.match_scenario[1] = "bad:" THEN scenario
     ELSE IF Len(scenario) = 2 THEN <<"in-country">> \o scenario
     ELSE IF scenario[1] \in {"unknown-country", "out-country"} THEN <<scenario[1], state, town>>
     ELSE IF scenario[1] \in {"in-state", "out-state"} THEN <<"in-country", scenario[1], town>>
     ELSE IF scenario[1] = "unknown-state-town" THEN <<"in-country", "unknown-state", "unknown-town">>
     ELSE <<"in-country", "unknown-state", scenario[1]>>

\* the saved output of Geocoding_ICOLD.py becomes the input of a run of Geocoding_QA.py
Reverse_geocoding ==
  /\ script = "Geocoding_ICOLD" /\ raised = "none" /\ closed
  /\ script' = "Geocoding_QA" /\ closed' = FALSE
  /\ infile_rows' =
       [k \in 1..(Len(geocoded_sheet) - 1) |->
          LET written == geocoded_sheet[k + 1]
          IN written.row @@
             [text_addr |-> written.gc.text_encoded_addr, encoded_addr |-> written.gc.encoded_addr,
              match |-> written.gc.match_scenario[1],
              scenario |-> tiers_of(Attr(written.row), written.gc),
              geocoded_name |-> written.gc.google_dam_name,
              lat_lng |-> written.gc.lat_lng, divisions |-> written.gc.divisions]]
  /\ ii' = 0 /\ considered_IDs' = <<>> /\ geocoded_sheet' = <<>>
  /\ success' = "No" /\ match_scenario_array' = <<>>
  /\ UNCHANGED <<geodata, raised, outfile_sheet, QA_rank, registry, reg_i, QA_mark, reg_i_QA_array, OUT_sheet, call, result, retrieval>>

(* ------------------------------------------------------------------ *)
(* Reservoirs_retrieval.py: the pairing of dams and lakes              *)
(* ------------------------------------------------------------------ *)

\* A feature class is the sequence of its records, and the OBJECTID of a record is its
\* place in the sequence. A dam holds its dam_ID and near, its distance in metres to each
\* lake of the water mask; a lake holds its Hylak_id, its place in the water mask, and its
\* Shape_Area. A field that is NULL holds 0.

\* SelectLayerByLocation and CopyFeatures: the lakes within the tolerance of some dam
within_a_distance(lakes, dams, tolerance) ==
  SelectSeq(lakes, LAMBDA lake : \E k \in 1..Len(dams) : dams[k].near[lake.Hylak_id] <= tolerance)

\* GenerateNearTable and JoinField: for each dam the lakes within the tolerance, the
\* closest first and five at most, each with its rank, its distance and its area; lakes
\* at the same distance are in the order of their OBJECTIDs
RECURSIVE near_table(_, _, _, _)
near_table(dams, lakes, tolerance, k) ==
  LET closest_count == 5
      Record(l, near_rank) ==
        [IN_FID |-> k, NEAR_FID |-> l, NEAR_DIST |-> dams[k].near[lakes[l].Hylak_id],
         NEAR_RANK |-> near_rank, SHAPE_AREA |-> lakes[l].Shape_Area]
      Nearest(S) ==
        CHOOSE l \in S : \A m \in S :
          \/ dams[k].near[lakes[l].Hylak_id] < dams[k].near[lakes[m].Hylak_id]
          \/ dams[k].near[lakes[l].Hylak_id] = dams[k].near[lakes[m].Hylak_id] /\ l <= m
      RECURSIVE Closest(_, _)
      Closest(S, near_rank) ==
        IF S = {} \/ near_rank > closest_count THEN <<>>
        ELSE <<Record(Nearest(S), near_rank)>> \o Closest(S \ {Nearest(S)}, near_rank + 1)
  IN IF k > Len(dams) THEN <<>>
     ELSE Closest({l \in 1..Len(lakes) : dams[k].near[lakes[l].Hylak_id] <= tolerance}, 1)
          \o near_table(dams, lakes, tolerance, k + 1)

\* the records of the near table of one dam
all_records_for_this_DAM(joined_table, this_DAM_FID) ==
  SelectSeq(joined_table, LAMBDA record : record.IN_FID = this_DAM_FID)

\* list.index(min(list)) and list.index(max(list))
index_of_min(list) ==
  SetMin({i \in 1..Len(list) : \A j \in 1..Len(list) : list[i] <= list[j]})

index_of_max(list) ==
  SetMin({i \in 1..Len(list) : \A j \in 1..Len(list) : list[i] >= list[j]})

\* one field of each record of a list
field(list, name) == [i \in 1..Len(list) |-> list[i][name]]

\* 1st iteration: each dam that has a lake within the tolerance, from the k-th dam on,
\* with the biggest of its lakes
RECURSIVE iteration_1(_, _, _)
iteration_1(dams, joined_table, k) ==
  LET Biggest(records) ==
        IF records = <<>> THEN <<>>
        ELSE <<[valid_DAM_FID |-> k,
                valid_DAM_BIGGEST_LAKE_FID |->
                  records[index_of_max(field(records, "SHAPE_AREA"))].NEAR_FID,
                distance |-> records[index_of_max(field(records, "SHAPE_AREA"))].NEAR_DIST]>>
  IN IF k > Len(dams) THEN <<>>
     ELSE Biggest(all_records_for_this_DAM(joined_table, k)) \o iteration_1(dams, joined_table, k + 1)

\* 2nd iteration, from the j-th valid dam on: a dam whose lake is the lake of another
\* dam as well is given its closest lake instead
RECURSIVE iteration_2(_, _, _)
iteration_2(joined_table, valid, j) ==
  LET Closest(records) ==
        [valid[j] EXCEPT
           !.valid_DAM_BIGGEST_LAKE_FID = records[index_of_min(field(records, "NEAR_RANK"))].NEAR_FID,
           !.distance = records[index_of_min(field(records, "NEAR_RANK"))].NEAR_DIST]
  IN IF j > Len(valid) THEN valid
     ELSE IF Cardinality({i \in 1..Len(valid) :
                            valid[i].valid_DAM_BIGGEST_LAKE_FID = valid[j].valid_DAM_BIGGEST_LAKE_FID}) > 1
     THEN iteration_2(joined_table,
                      [valid EXCEPT ![j] = Closest(all_records_for_this_DAM(joined_table, valid[j].valid_DAM_FID))],
                      j + 1)
     ELSE iteration_2(joined_table, valid, j + 1)

\* the loop over the lakes that ends the 2nd iteration: a lake of several dams is given
\* the closest of them
lakes_with_dam(lakes, valid) ==
  LET Paired(this_lake_FID, lake_with_dam_indices) ==
        IF Len(lake_with_dam_indices) = 1
        THEN [DAM_FID_FOR_this_LAKE |-> valid[lake_with_dam_indices[1]].valid_DAM_FID,
              DIST_to_its_dam |-> valid[lake_with_dam_indices[1]].distance,
              MultiDams |-> 0, Dammed_lakes |-> this_lake_FID]
        ELSE IF Len(lake_with_dam_indices) > 1
        THEN [DAM_FID_FOR_this_LAKE |->
                valid[lake_with_dam_indices[index_of_min([i \in 1..Len(lake_with_dam_indices) |->
                                                           valid[lake_with_dam_indices[i]].distance])]].valid_DAM_FID,
              DIST_to_its_dam |->
                valid[lake_with_dam_indices[index_of_min([i \in 1..Len(lake_with_dam_indices) |->
                                                           valid[lake_with_dam_indices[i]].distance])]].distance,
              MultiDams |-> 1, Dammed_lakes |-> this_lake_FID]
        ELSE [DAM_FID_FOR_this_LAKE |-> -1, DIST_to_its_dam |-> -1, MultiDams |-> -1,
              Dammed_lakes |-> -1]
  IN [this_lake_FID \in 1..Len(lakes) |->
        Paired(this_lake_FID,
               Ascending({i \in 1..Len(valid) : valid[i].valid_DAM_BIGGEST_LAKE_FID = this_lake_FID}))]

\* 3rd iteration, first loop, from the j-th valid dam on: each dam left without a lake
\* with the closest of its lakes that no dam has
RECURSIVE missing_dams(_, _, _, _)
missing_dams(joined_table, valid, paired, j) ==
  LET Unassigned(records) ==
        SelectSeq(records, LAMBDA r : \A l \in 1..Len(paired) : paired[l].Dammed_lakes # r.NEAR_FID)
      Missing(unassigned) ==
        IF unassigned = <<>> THEN <<>>
        ELSE <<[missing_dam_FID |-> valid[j].valid_DAM_FID,
                missing_dam_associated_lakes_FID |->
                  unassigned[index_of_min(field(unassigned, "NEAR_DIST"))].NEAR_FID,
                dist_to_dam |-> unassigned[index_of_min(field(unassigned, "NEAR_DIST"))].NEAR_DIST]>>
  IN IF j > Len(valid) THEN <<>>
     ELSE (IF \E l \in 1..Len(paired) : paired[l].DAM_FID_FOR_this_LAKE = valid[j].valid_DAM_FID
           THEN <<>>
           ELSE Missing(Unassigned(all_records_for_this_DAM(joined_table, valid[j].valid_DAM_FID))))
          \o missing_dams(joined_table, valid, paired, j + 1)

\* 3rd iteration, second loop, from the local_i-th missing dam on: the lake of a missing
\* dam is given that dam, or the closest of the missing dams that have this lake
RECURSIVE iteration_3(_, _, _)
iteration_3(missing, paired, local_i) ==
  LET Secured(this_lake, this_lake_indices) ==
        IF Len(this_lake_indices) = 1
        THEN [paired[this_lake] EXCEPT
                !.DAM_FID_FOR_this_LAKE = missing[local_i].missing_dam_FID,
                !.DIST_to_its_dam = missing[local_i].dist_to_dam,
                !.MultiDams = 0]
        ELSE [paired[this_lake] EXCEPT
                !.DAM_FID_FOR_this_LAKE =
                  missing[this_lake_indices[index_of_min([i \in 1..Len(this_lake_indices) |->
                                                           missing[this_lake_indices[i]].dist_to_dam])]].missing_dam_FID,
                !.DIST_to_its_dam =
                  missing[this_lake_indices[index_of_min([i \in 1..Len(this_lake_indices) |->
                                                           missing[this_lake_indices[i]].dist_to_dam])]].dist_to_dam,
                !.MultiDams = 1]
      This(lake) ==
        Secured(lake, Ascending({i \in 1..Len(missing) : missing[i].missing_dam_associated_lakes_FID = lake}))
  IN IF local_i > Len(missing) THEN paired
     ELSE iteration_3(missing,
                      [paired EXCEPT ![missing[local_i].missing_dam_associated_lakes_FID] =
                                       This(missing[local_i].missing_dam_associated_lakes_FID)],
                      local_i + 1)

\* one round: the near table, the three iterations and the dam_ID in place of the
\* OBJECTID of the dam of each lake; del of a loop variable that no loop bound, after the
\* loop over an empty near table, raises NameError
retrieval_round(dams, lakes, tolerance) ==
  LET Official(paired) ==
        [exc |-> "none", Lake_officialID |-> [l \in 1..Len(lakes) |-> lakes[l].Hylak_id],
         paired |-> paired,
         DAM_officialID_FOR_this_LAKE |->
           [l \in 1..Len(paired) |->
              IF paired[l].DAM_FID_FOR_this_LAKE = -1 THEN -1
              ELSE dams[paired[l].DAM_FID_FOR_this_LAKE].dam_ID]]
      Third(joined_table, valid, paired) ==
        Official(iteration_3(missing_dams(joined_table, valid, paired, 1), paired, 1))
      Second(joined_table, valid) == Third(joined_table, valid, lakes_with_dam(lakes, valid))
      First(joined_table) ==
        IF joined_table = <<>>
        THEN [exc |-> "NameError", Lake_officialID |-> <<>>, paired |-> <<>>,
              DAM_officialID_FOR_this_LAKE |-> <<>>]
        ELSE Second(joined_table, iteration_2(joined_table, iteration_1(dams, joined_table, 1), 1))
  IN First(near_table(dams, lakes, tolerance, 1))

\* the update cursor on Lakes2: a lake whose Hylak_id the round has once, and that has a
\* dam, is given the dam_ID, the distance and the mark of several dams
updated(lakes2, done) ==
  LET Update(lake_record, this_index) ==
        IF Len(this_index) = 1 /\ done.paired[this_index[1]].DAM_FID_FOR_this_LAKE # -1
        THEN [lake_record EXCEPT
                !.Dam_officialID = done.DAM_officialID_FOR_this_LAKE[this_index[1]],
                !.Dam_dist = done.paired[this_index[1]].DIST_to_its_dam,
                !.MultiDams = done.paired[this_index[1]].MultiDams]
        ELSE lake_record
  IN [k \in 1..Len(lakes2) |->
        Update(lakes2[k], Ascending({i \in 1..Len(done.Lake_officialID) :
                                       done.Lake_officialID[i] = lakes2[k].Hylak_id}))]

\* every dam taken for a dam without a lake
unpaired_all(dams, officialIDs) == dams

\* the dams whose dam_ID is not the dam of any lake
unpaired(dams, officialIDs) ==
  SelectSeq(dams, LAMBDA dam : \A l \in 1..Len(officialIDs) : officialIDs[l] # dam.dam_ID)

(* ------------------------------------------------------------------ *)
(* Reservoirs_retrieval.py: the runs explored                          *)
(* ------------------------------------------------------------------ *)

MaxDams == 3

\* the water mask: three lakes, the first the biggest, or the last two of the same area
Water_mask_pool ==
  {[k \in 1..3 |-> [Hylak_id |-> k, Shape_Area |-> areas[k]]] : areas \in {<<3, 2, 1>>, <<1, 2, 2>>}}

\* where a dam lies: its distances to the three lakes
near_pool ==
  {<<100, 400, 5000>>, <<400, 100, 5000>>, <<400, 400, 5000>>, <<100, 5000, 900>>,
   <<5000, 400, 900>>, <<5000, 5000, 900>>, <<900, 5000, 5000>>}

\* the state after the selection of the lakes within 1000 m of the dams, to which the
\* fields of the paired dam are added; the run is taken from the environment settings
\* on, after the banner of line 53, whose datetime.datetime.now() raises AttributeError
\* under 'from datetime import datetime'
InitRR ==
  /\ script = "Reservoirs_retrieval" /\ raised = "none" /\ closed = FALSE
  /\ \E n \in 1..MaxDams : \E near \in [1..n -> near_pool] :
       Dams = [k \in 1..n |-> [dam_ID |-> 100 + k, near |-> near[k]]]
  /\ \E Water_mask \in Water_mask_pool :
       /\ Lakes = within_a_distance(Water_mask, Dams, 500)
       /\ Lakes2 = [k \in 1..Len(within_a_distance(Water_mask, Dams, 1000)) |->
                      within_a_distance(Water_mask, Dams, 1000)[k]
                      @@ [Dam_officialID |-> 0, Dam_dist |-> 0, MultiDams |-> 0]]
  /\ rounds = 0 /\ Dams_others = <<>> /\ DAM_officialID_FOR_this_LAKE = <<>>
  /\ matched_lakes = <<>> /\ notmatched_dams = <<>>
  /\ infile_rows = <<>> /\ ii = 0
  /\ Idle

RunsRR == script = "Reservoirs_retrieval" /\ raised = "none" /\ ~closed

\* what a round leaves: the exception, or Lakes2 updated and the dams of the lakes
RR_Done(done) ==
  /\ raised' = done.exc
  /\ IF done.exc = "none"
     THEN /\ Lakes2' = updated(Lakes2, done)
          /\ DAM_officialID_FOR_this_LAKE' = done.DAM_officialID_FOR_this_LAKE
          /\ rounds' = rounds + 1
     ELSE UNCHANGED <<Lakes2, DAM_officialID_FOR_this_LAKE, rounds>>

\* ROUND 1: the dams and the lakes within 500 m of a dam
RR_Round_1 ==
  /\ RunsRR /\ rounds = 0
  /\ RR_Done(retrieval_round(Dams, Lakes, 500))
  /\ UNCHANGED <<script, closed, infile_rows, ii, considered_IDs, outfile_sheet, QA_rank,
                 registry, reg_i, QA_mark, reg_i_QA_array, OUT_sheet, call, result, geocoding,
                 Dams, Lakes, Dams_others, matched_lakes, notmatched_dams>>

\* ROUND 2: the dams and the lakes that round 1 left unpaired, within 1000 m
RR_Round_2 ==
  /\ RunsRR /\ rounds = 1
  /\ Dams_others' = unpaired(Dams, DAM_officialID_FOR_this_LAKE)
  /\ RR_Done(retrieval_round(unpaired(Dams, DAM_officialID_FOR_this_LAKE),
                             SelectSeq(Lakes2, LAMBDA lake : lake.Dam_officialID = 0), 1000))
  /\ UNCHANGED <<script, closed, infile_rows, ii, considered_IDs, outfile_sheet, QA_rank,
                 registry, reg_i, QA_mark, reg_i_QA_array, OUT_sheet, call, result, geocoding,
                 Dams, Lakes, matched_lakes, notmatched_dams>>

\* Final step: the paired lakes and the dams left unpaired are exported
RR_Export ==
  /\ RunsRR /\ rounds = 2
  /\ matched_lakes' = SelectSeq(Lakes2, LAMBDA lake : lake.Dam_officialID # 0)
  /\ notmatched_dams' = unpaired(Dams_others, DAM_officialID_FOR_this_LAKE)
  /\ closed' = TRUE
  /\ UNCHANGED <<script, raised, infile_rows, ii, considered_IDs, outfile_sheet, QA_rank,
                 registry, reg_i, QA_mark, reg_i_QA_array, OUT_sheet, call, result, geocoding,
                 Dams, Lakes, Lakes2, Dams_others, DAM_officialID_FOR_this_LAKE, rounds>>

(* ------------------------------------------------------------------ *)
(* The scripts and the functions together                              *)
(* ------------------------------------------------------------------ *)

Init == InitQA \/ InitGM \/ InitFn \/ InitGC \/ InitRR

Next ==
  \/ QA_Header \/ QA_Skip \/ QA_Rank \/ QA_Rank_cn \/ QA_Close
  \/ GM_Header \/ GM_Skip \/ GM_Begin \/ GM_Compare \/ GM_Select \/ GM_Close
  \/ GC_Header \/ GC_Skip \/ GC_NoName \/ GC_Geocode \/ GC_Close \/ Reverse_geocoding
  \/ RR_Round_1 \/ RR_Round_2 \/ RR_Export
  \/ Call_similar \/ Call_similar_v2 \/ Call_year_similar \/ Call_river_similar
  \/ Call_damname_similar \/ Call_damname_similar_v2 \/ Call_containment_check
  \/ Call_remove_accents \/ Call_China_title

Spec == Init /\ [][Next]_vars

(* ------------------------------------------------------------------ *)
(* Properties of the selection                                         *)
(* ------------------------------------------------------------------ *)

\* the rows of an output sheet below the header
Below(sheet) == {k \in 1..Len(sheet) : sheet[k].row.ICOLDID # 0}

\* the rows of the input file that belong to the ICOLD ID x
Candidates(x) == {i \in 1..Len(infile_rows) : infile_rows[i].ICOLDID = x}

\* a geocoded row satisfies the predicate of a tier: its match level and its scenario are
\* those of the tier and its name is one of the names of the record
Satisfies(row, tier) ==
  /\ row.match = tier.match
  /\ InTier(row.scenario, tier)
  /\ GOOD_local_dam_name_pass(Attr(row), row) = Ok(10)

\* a geocoded row satisfies some tier
Qualifies(row) == \E t \in Range(tiers(Attr(row))) : Satisfies(row, t)

\* the QA level of a register record for a row of the WRD, 0 when it has none
Level(row, reg) ==
  LET Of(c) == IF c.exc = "none" THEN c.level ELSE 0
  IN Of(Compare(GM_Attr(row), reg))

\* C1: for every ICOLD ID, over the whole run of Geocoding_QA and of Geomatching_ICOLD,
\* at most one row is written to the output
C1_AtMostOneRow ==
  /\ \A i, j \in 1..Len(outfile_sheet) :
       outfile_sheet[i].row.ICOLDID = outfile_sheet[j].row.ICOLDID => i = j
  /\ \A i, j \in 1..Len(OUT_sheet) :
       OUT_sheet[i].row.ICOLDID = OUT_sheet[j].row.ICOLDID => i = j

\* Geocoding_QA has ended, two rows of one ICOLD ID each satisfy a tier, and one row of
\* that ID is in the output
C1_TwoQualifyOneWritten ==
  /\ script = "Geocoding_QA" /\ closed
  /\ \E i, j \in 1..Len(infile_rows) :
       /\ i < j /\ infile_rows[i].ICOLDID = infile_rows[j].ICOLDID
       /\ Qualifies(infile_rows[i]) /\ Qualifies(infile_rows[j])
       /\ Cardinality({k \in Below(outfile_sheet) :
                         outfile_sheet[k].row.ICOLDID = infile_rows[i].ICOLDID}) = 1

\* the level of register record r against the level written: it is the level written
\* when r is the record written, and when r has a level it is not better than the one written
BestLevel(written, r, level) ==
  /\ r = written.reg_i => level = written.reg_QA
  /\ level # 0 => written.reg_QA <= level

\* C2: in the output that a script leaves when it ends or stops, the rank of a row that
\* Geocoding_QA has written is that of a tier the row satisfies, and it is at most the
\* rank of every tier that any row of the same ICOLD ID satisfies; the level that
\* Geomatching_ICOLD has written is that of the register record written and at most the
\* level of every register record that has a level (M1:1, the level 10, is the least of
\* the levels)
C2_BestTier ==
  (closed \/ raised # "none") =>
  /\ \A k \in Below(outfile_sheet) :
       /\ \E t \in Range(tiers(Attr(outfile_sheet[k].row))) :
            t.QA_rank = outfile_sheet[k].QA_rank /\ Satisfies(outfile_sheet[k].row, t)
       /\ \A i \in Candidates(outfile_sheet[k].row.ICOLDID) :
            \A t \in Range(tiers(Attr(infile_rows[i]))) :
               outfile_sheet[k].QA_rank <= t.QA_rank \/ ~Satisfies(infile_rows[i], t)
  /\ \A k \in Below(OUT_sheet) :
       /\ OUT_sheet[k].reg_i \in 1..Len(registry)
       /\ \A r \in 1..Len(registry) :
            (r = OUT_sheet[k].reg_i \/ OUT_sheet[k].reg_QA # 10) =>
              BestLevel(OUT_sheet[k], r, Level(OUT_sheet[k].row, registry[r]))

\* Geomatching_ICOLD has ended, and a register record has a worse level than the one written
C2_WorseLevelPassedOver ==
  /\ script = "Geomatching_ICOLD" /\ closed
  /\ \E k \in Below(OUT_sheet), r \in 1..Len(registry) :
       Level(OUT_sheet[k].row, registry[r]) > OUT_sheet[k].reg_QA

\* the place of the address of a row in the order the scenarios of its record are generated
ScenarioIndex(row) ==
  LET First(cleaned) == SetMin({k \in 1..Len(cleaned) : cleaned[k] = row.text_addr})
  IN First(Sc_list_cleaned(Attr(row)))

\* the address of the row was sent to the geocoder with the country
CountryRestricted(row) == In(<<"&", "c", "o", "m", "p", "o", "n", "e", "n", "t", "s", "=">> \o <<"c", "o", "u", "n", "t", "r", "y", ":">>, row.encoded_addr)

\* a is not after b, a and b at places i and j in the order of the scenarios: scenario
\* first, then the address with the country before the one without
ScenarioFirst(a, b, i, j) == i < j \/ (i = j /\ (CountryRestricted(a) \/ ~CountryRestricted(b)))

ByScenario(a, b) == ScenarioFirst(a, b, ScenarioIndex(a), ScenarioIndex(b))

\* a is not after b: the addresses with the country first, then the scenario
ByRestriction(a, b) ==
  \/ CountryRestricted(a) /\ ~CountryRestricted(b)
  \/ CountryRestricted(a) = CountryRestricted(b) /\ ScenarioIndex(a) <= ScenarioIndex(b)

\* in the output that Geocoding_QA leaves when it ends or stops, the row written is not
\* after any row of its ICOLD ID that satisfies the tier of its rank
SecondaryOrder(NotAfter(_, _)) ==
  (closed \/ raised # "none") => \A k \in Below(outfile_sheet) :
    \A i \in Candidates(outfile_sheet[k].row.ICOLDID) :
      (\E t \in Range(tiers(Attr(infile_rows[i]))) :
          t.QA_rank = outfile_sheet[k].QA_rank /\ Satisfies(infile_rows[i], t))
        => NotAfter(outfile_sheet[k].row, infile_rows[i])

\* C3 as stated: in every country, China included, the row written is the first of the
\* rows satisfying the tier in the order of the scenarios, the address with the country
\* before the address without it, and this one before every address of a later scenario
C3_ScenarioOrderEverywhere == SecondaryOrder(ByScenario)

\* C3 amended: outside China the order is scenario first, then the address with the
\* country before the one without; in China every address with the country is before
\* every address without it, and the scenario orders the addresses of each kind
C3_ScenarioOrderOutsideChina ==
  SecondaryOrder(LAMBDA a, b : IF a.this_country_ISO = <<"c", "n">> THEN ByRestriction(a, b)
                               ELSE ByScenario(a, b))

\* Geocoding_QA has ended for a record of China: the row written was sent with the
\* country, and a row of an earlier scenario sent without it satisfies the same tier
C3_OrderDecides ==
  /\ script = "Geocoding_QA" /\ closed
  /\ \E k \in Below(outfile_sheet) : \E i \in Candidates(outfile_sheet[k].row.ICOLDID) :
       /\ outfile_sheet[k].row.this_country_ISO = <<"c", "n">>
       /\ \E t \in Range(tiers(Attr(infile_rows[i]))) :
            t.QA_rank = outfile_sheet[k].QA_rank /\ Satisfies(infile_rows[i], t)
       /\ CountryRestricted(outfile_sheet[k].row) /\ ~CountryRestricted(infile_rows[i])
       /\ ScenarioIndex(infile_rows[i]) < ScenarioIndex(outfile_sheet[k].row)

\* the orders in which a file of n rows can be presented
Orders(n) == {p \in [1..n -> 1..n] : \A a, b \in 1..n : p[a] = p[b] => a = b}

\* C4 as stated: whatever the order in which the rows of the file are presented, rank()
\* selects the row that was written, with the rank that was written, also when several
\* rows of the best tier have the same place in the secondary order
C4_OrderIndependent ==
  script = "Geocoding_QA" =>
    \A k \in Below(outfile_sheet) : \A p \in Orders(Len(infile_rows)) :
      LET Same(rows, again) ==
            /\ again.exc = "none" /\ again.final_index # 0
            /\ again.QA_rank = outfile_sheet[k].QA_rank
            /\ rows[again.final_index] = outfile_sheet[k].row
          Presented(rows) ==
            Same(rows, rank(Attr(outfile_sheet[k].row), rows, outfile_sheet[k].row.ICOLDID))
      IN Presented([i \in 1..Len(infile_rows) |-> infile_rows[p[i]]])

\* C5: when Geocoding_QA has evaluated an ICOLD ID and no row of the ID satisfies any
\* tier, the rank assigned is 9, and no row of the ID is in the output that the script
\* leaves when it ends
C5_NoSelection ==
  (script = "Geocoding_QA" /\ raised = "none") =>
    /\ considered_IDs # <<>> =>
         \/ QA_rank = 90
         \/ \E i \in Candidates(considered_IDs[Len(considered_IDs)]) : Qualifies(infile_rows[i])
    /\ closed =>
         \A c \in 1..Len(considered_IDs) :
           \/ \A k \in Below(outfile_sheet) : outfile_sheet[k].row.ICOLDID # considered_IDs[c]
           \/ \E i \in Candidates(considered_IDs[c]) : Qualifies(infile_rows[i])

\* Geocoding_QA has ended, the last ICOLD ID evaluated has rows in the file, none of them
\* satisfies a tier, the rank is 9 and the output holds the header alone
C5_RankNine ==
  /\ script = "Geocoding_QA" /\ closed /\ considered_IDs # <<>>
  /\ Candidates(considered_IDs[Len(considered_IDs)]) # {}
  /\ \A i \in Candidates(considered_IDs[Len(considered_IDs)]) : ~Qualifies(infile_rows[i])
  /\ QA_rank = 90
  /\ Below(outfile_sheet) = {}

\* C6 as stated: every call of a function returns a value, and the scans of the tiers
\* and of the register raise no exception
C6_Total ==
  /\ raised = "none"
  /\ (script = "functions" /\ call.done) => result.exc = "none"

\* C7 as stated: damname_similar returns 0, 0.5 or 1 for every input
C7_ThreeValues ==
  (script = "functions" /\ call.f = "damname_similar" /\ call.done)
    => result.exc = "none" /\ result.val \in {0, 5, 10}

\* C8 as stated: damname_similar_v2 returns 0 or 1 whenever it returns
C8_TwoValues ==
  (script = "functions" /\ call.f = "damname_similar_v2" /\ call.done /\ result.exc = "none")
    => result.val \in {0, 10}

\* the numbers written in digits in a name
Numbers(name) == Range(FindAllDigits(name))

\* C9: when the name of the dam, the only name of the record, and the name of the
\* candidate both hold numbers in digits and a number of one is not in the other,
\* damname_similar returns 0; so it does for "Tuttle Creek 1" and "Tuttle Creek 2"
C9_DifferentNumbers ==
  (script = "functions" /\ call.f = "damname_similar" /\ call.done) =>
    /\ (/\ call.args[3] = <<>> /\ call.args[4] = <<>>
        /\ Numbers(call.args[2]) # {} /\ Numbers(call.args[5]) # {}
        /\ Numbers(call.args[2]) # Numbers(call.args[5]))
         => result = Ok(0)
    /\ (/\ call.args[2] = <<"T", "u", "t", "t", "l", "e", " ", "C", "r", "e", "e", "k", " ", "1">> /\ call.args[5] = <<"T", "u", "t", "t", "l", "e", " ", "C", "r", "e", "e", "k", " ", "2">>
        /\ call.args[3] = <<>> /\ call.args[4] = <<>>)
         => result = Ok(0)

\* damname_similar has returned 0 for "Tuttle Creek 1", "", "", "Tuttle Creek 2", "us"
C9_TuttleCreek ==
  /\ script = "functions" /\ call.done
  /\ call.f = "damname_similar"
  /\ call.args[2] = <<"T", "u", "t", "t", "l", "e", " ", "C", "r", "e", "e", "k", " ", "1">> /\ call.args[3] = <<>> /\ call.args[4] = <<>>
  /\ call.args[5] = <<"T", "u", "t", "t", "l", "e", " ", "C", "r", "e", "e", "k", " ", "2">> /\ call.args[6] = <<"u", "s">>
  /\ result = Ok(0)

\* C10 as stated: damname_similar returns 1 for "Tuttle Creek I", "", "", "Tuttle Creek 1",
\* "us", the Roman numeral of the record being the number of the candidate
C10_RomanOne ==
  (/\ script = "functions" /\ call.f = "damname_similar" /\ call.done
   /\ call.args[2] = <<"T", "u", "t", "t", "l", "e", " ", "C", "r", "e", "e", "k", " ", "I">> /\ call.args[3] = <<>> /\ call.args[4] = <<>>
   /\ call.args[5] = <<"T", "u", "t", "t", "l", "e", " ", "C", "r", "e", "e", "k", " ", "1">> /\ call.args[6] = <<"u", "s">>)
    => result = Ok(10)

\* the words of a name as the gates see them, in lower case
Tokens(name) == Range(Splits(Lower(name)))

\* C11: when a direction word or letter is a word of exactly one of the name of the
\* dam, the only name of the record, and the name of the candidate, damname_similar
\* returns 0; so it does for "Springfield East Dam", "", "", "Springfield Dam", "us"
C11_DirectionGate ==
  (/\ script = "functions" /\ call.f = "damname_similar" /\ call.done
   /\ call.args[3] = <<>> /\ call.args[4] = <<>>) =>
    /\ (\E w \in directions : (w \in Tokens(call.args[2])) # (w \in Tokens(call.args[5])))
         => result = Ok(0)
    /\ (call.args[2] = <<"S", "p", "r", "i", "n", "g", "f", "i", "e", "l", "d", " ", "E", "a", "s", "t", " ", "D", "a", "m">> /\ call.args[5] = <<"S", "p", "r", "i", "n", "g", "f", "i", "e", "l", "d", " ", "D", "a", "m">>)
         => result = Ok(0)

\* x occurs in y with each of its ends at an end of y or next to a space or a hyphen
AsUnit(x, y) ==
  /\ x # <<>> /\ x # y
  /\ \E i \in 0..(Len(y) - Len(x)) :
       /\ OccursAt(y, x, i)
       /\ i = 0 \/ y[i] \in {" ", "-"}
       /\ i + Len(x) = Len(y) \/ y[i + Len(x) + 1] \in {" ", "-"}

\* C12: the containment check passes exactly when one name lies in the other as a unit,
\* at the start, inside or at the end of the longer name; it passes for "City of
\* Springfield" and "Springfield" and fails for "Springfieldville" and "Springfield"
C12_ContainsAsUnit ==
  (script = "functions" /\ call.f = "containment_check" /\ call.done) =>
    /\ result = Ok(IF AsUnit(call.args[1], call.args[2]) \/ AsUnit(call.args[2], call.args[1])
                   THEN 1 ELSE 0)
    /\ (call.args[1] = <<"C", "i", "t", "y", " ", "o", "f", " ", "S", "p", "r", "i", "n", "g", "f", "i", "e", "l", "d">> /\ call.args[2] = <<"S", "p", "r", "i", "n", "g", "f", "i", "e", "l", "d">>) => result = Ok(1)
    /\ (call.args[1] = <<"S", "p", "r", "i", "n", "g", "f", "i", "e", "l", "d", "v", "i", "l", "l", "e">> /\ call.args[2] = <<"S", "p", "r", "i", "n", "g", "f", "i", "e", "l", "d">>) => result = Ok(0)

\* C13: similar gives the same result when its arguments are exchanged, and so does
\* similar_v2
C13_Symmetric ==
  /\ (script = "functions" /\ call.f = "similar" /\ call.done)
       => result = similar(call.args[2], call.args[1])
  /\ (script = "functions" /\ call.f = "similar_v2" /\ call.done)
       => result = Ok(similar_v2(call.args[2], call.args[1]))

\* lower-cased and trimmed, as similar does first
Lowered(s) == Strip(Lower(s))

\* s is a value for which similar returns 0 without comparing
Placeholder(s) == Lowered(s) \in sentinels \/ HasUnknownPrefix(Lowered(s))

Delimited(s) == "/" \in Range(s) \/ "\\" \in Range(s)

\* the ratio x is 1
IsOne(x) == x[1] = x[2]

C15_PlaceholderZero ==
  (/\ script = "functions" /\ call.f \in {"similar", "similar_v2"} /\ call.done
   /\ Placeholder(call.args[1]) \/ Placeholder(call.args[2])) =>
    result.exc = "none" /\ result.val[1] = 0

\* C16: remove_accents applied to its own result changes nothing
C16_Idempotent ==
  (script = "functions" /\ call.f = "remove_accents" /\ call.done) =>
    result.exc = "none" /\ remove_accents(result.val) = result.val

\* remove_accents has turned the letter u with diaeresis and acute into "u"
C16_AccentsRemoved ==
  /\ script = "functions" /\ call.f = "remove_accents" /\ call.done
  /\ call.args[1] = <<"u_diaeresis_acute">>
  /\ result = Ok(<<"u">>)

\* the solution of the geocoder is named Tuttle Creek Dam and lies in Kansas, us, in no
\* town; it has types of a dam and is no partial match
TuttleCreekDam(this_geodata) ==
  LET d == divisions(this_geodata)
  IN /\ this_geodata.address_components[1].long_name = <<"T", "u", "t", "t", "l", "e", " ", "C", "r", "e", "e", "k", " ", "D", "a", "m">>
     /\ this_geodata.partial_match = "absent" /\ wrong_type(this_geodata) = 0
     /\ d.country.shortname = <<"u", "s">> /\ d.admin_1.longname_ascii = <<"k", "a", "n", "s", "a", "s">>
     /\ \A level \in DOMAIN d \ {"country", "admin_1"} : d[level].longname_ascii = <<"-", "9", "9", "9">>

\* Geocoding_QA runs on the output of Geocoding_ICOLD for the one record Tuttle Creek of
\* Kansas, us, without town, and the geocoder answered the first address of the record
\* with the one solution Tuttle Creek Dam
TuttleCreekGeocoded ==
  /\ script = "Geocoding_QA" /\ Len(geodata) > 0
  /\ geodata[1].status = "OK" /\ Len(geodata[1].results) = 1
  /\ TuttleCreekDam(geodata[1].results[1])
  /\ \A i \in 1..Len(infile_rows) :
       Attr(infile_rows[i]) = Attributes(<<"t", "u", "t", "t", "l", "e", " ", "c", "r", "e", "e", "k">>, <<>>, <<>>, <<"k", "a", "n", "s", "a", "s">>, <<>>, <<"u", "s">>)

\* C17: the record Tuttle Creek of Kansas, us, without town, for which the geocoder found
\* the one solution Tuttle Creek Dam in Kansas, us, in no town and not as a partial match,
\* has one row in the output of Geocoding_ICOLD, and Geocoding_QA writes that row with
\* rank 1.1 when it evaluates the record
C17_TuttleCreekDam ==
  TuttleCreekGeocoded
    => /\ Len(infile_rows) = 1
       /\ infile_rows[1].geocoded_name = <<"T", "u", "t", "t", "l", "e", " ", "C", "r", "e", "e", "k", " ", "D", "a", "m">>
       /\ considered_IDs # <<>>
            => /\ raised = "none" /\ QA_rank = 11
               /\ \E k \in Below(outfile_sheet) :
                    outfile_sheet[k] = [row |-> infile_rows[1], QA_rank |-> 11]

\* Geocoding_QA has ended after it wrote the solution Tuttle Creek Dam with rank 1.1
C17_WrittenFirstBest ==
  /\ TuttleCreekGeocoded /\ closed
  /\ \E k \in Below(outfile_sheet) : outfile_sheet[k] = [row |-> infile_rows[1], QA_rank |-> 11]

\* the rows of the ICOLD ID x that hold a solution Geocoding_ICOLD kept as a feature
Features(x) == {i \in Candidates(x) : infile_rows[i].match # "bad:"}

\* the solution of a row of the output of Geocoding_ICOLD has a country code, which is
\* not that of the record
Foreign(row) ==
  /\ "divisions" \in DOMAIN row
  /\ row.divisions.country.shortname \notin {<<"-", "9", "9", "9">>, row.this_country_ISO}

\* C18: when Geocoding_QA runs on the output of Geocoding_ICOLD, a row whose solution lies
\* in another country than the record is written with rank 7 or worse only; and a record
\* of which every feature found lies in another country gets rank 8 or 8.5 when the name
\* of one of them matches, and rank 9 otherwise
C18_OtherCountry ==
  script = "Geocoding_QA" /\ raised = "none"
    => /\ \A k \in Below(outfile_sheet) :
            Foreign(outfile_sheet[k].row) => outfile_sheet[k].QA_rank >= 70
       /\ \A x \in {considered_IDs[j] : j \in {Len(considered_IDs)} \ {0}} :
            Features(x) # {} /\ (\A i \in Features(x) : Foreign(infile_rows[i]))
              => IF \E i \in Features(x) :
                      GOOD_local_dam_name_pass(Attr(infile_rows[i]), infile_rows[i]) = Ok(10)
                 THEN QA_rank \in {80, 85}
                 ELSE QA_rank = 90

\* Geocoding_QA has written a feature of another country with rank 8
C18_WrittenRankEight ==
  /\ script = "Geocoding_QA" /\ closed
  /\ \E k \in Below(outfile_sheet) : Foreign(outfile_sheet[k].row) /\ outfile_sheet[k].QA_rank = 80

\* what the geocoder answered for the last record, solution by solution, in the order
\* in which Geocoding_ICOLD goes through the solutions
Answered == solutions_from(geodata, geodata, 1)

\* the best possible solution of the last record was written at once
EarlyCommit ==
  /\ script = "Geocoding_ICOLD" /\ success = "Yes" /\ raised = "none"
  /\ geocoded_sheet[Len(geocoded_sheet)].gc.match_scenario # <<"bad:", "no-name">>

\* C19: in Geocoding_ICOLD a solution whose list of types is not one of the lists of
\* feature types has the scenario "bad: non-feature", whatever its country, state, town,
\* partial match and name are, and it is not the solution written at once as the best
\* possible one
C19_NonFeature ==
  script = "Geocoding_ICOLD"
    => /\ \A k \in 1..Len(match_scenario_array) :
            /\ k <= Len(Answered) /\ Answered[k].status = "OK"
            /\ Answered[k].this_geodata.types \notin feature_types
            => match_scenario_array[k] = <<"bad:", "non-feature">>
       /\ EarlyCommit
            => /\ Len(Answered) = Len(match_scenario_array) + 1
               /\ Answered[Len(Answered)].status = "OK"
               /\ Answered[Len(Answered)].this_geodata.types \in feature_types
               /\ geocoded_sheet[Len(geocoded_sheet)].gc.lat_lng
                    = Answered[Len(Answered)].this_geodata.location
       /\ \A k \in Below(geocoded_sheet) :
            geocoded_sheet[k].gc.match_scenario[1] # "bad:"
              => \/ geocoded_sheet[k].row.ICOLDID # considered_IDs[Len(considered_IDs)]
                 \/ \E j \in 1..Len(Answered) :
                      /\ Answered[j].status = "OK"
                      /\ Answered[j].this_geodata.types \in feature_types
                      /\ Answered[j].this_geodata.location = geocoded_sheet[k].gc.lat_lng

\* a solution in the state and the country of the record, named as the record and no
\* partial match, whose types are those of a locality, has the scenario "bad: non-feature"
C19_LocalityNamedAsDam ==
  /\ script = "Geocoding_ICOLD" /\ raised = "none" /\ success = "No"
  /\ \E k \in 1..Len(match_scenario_array) :
       /\ k <= Len(Answered) /\ Answered[k].status = "OK"
       /\ Answered[k].this_geodata.types = <<"locality", "political">>
       /\ Answered[k].this_geodata.address_components[1].long_name = <<"T", "u", "t", "t", "l", "e", " ", "C", "r", "e", "e", "k", " ", "D", "a", "m">>
       /\ divisions(Answered[k].this_geodata).admin_1.longname_ascii = <<"k", "a", "n", "s", "a", "s">>
       /\ match_scenario_array[k] = <<"bad:", "non-feature">>
  /\ \E i \in 1..Len(infile_rows) :
       Attr(infile_rows[i]) = Attributes(<<"t", "u", "t", "t", "l", "e", " ", "c", "r", "e", "e", "k">>, <<>>, <<>>, <<"k", "a", "n", "s", "a", "s">>, <<>>, <<"u", "s">>)

\* C20: in Reservoirs_retrieval, at every point of the two rounds and in the lakes
\* exported, no two lakes have the same dam and no lake is there twice, so that a dam has
\* one lake at most and a lake one dam at most; and a lake that has a dam keeps it, so
\* that round 2 pairs no lake that round 1 paired
C20_OneToOne ==
  /\ [](\A k, l \in 1..Len(Lakes2) :
          \/ k = l
          \/ /\ Lakes2[k].Hylak_id # Lakes2[l].Hylak_id
             /\ Lakes2[k].Dam_officialID = 0 \/ Lakes2[k].Dam_officialID # Lakes2[l].Dam_officialID)
  /\ [](\A k, l \in 1..Len(matched_lakes) :
          \/ k = l
          \/ /\ matched_lakes[k].Hylak_id # matched_lakes[l].Hylak_id
             /\ matched_lakes[k].Dam_officialID # matched_lakes[l].Dam_officialID)
  /\ [][\A k \in 1..Len(Lakes2) :
          Lakes2[k].Dam_officialID # 0 => Len(Lakes2') = Len(Lakes2) /\ Lakes2'[k] = Lakes2[k]]_vars

\* the lakes are exported: round 1 gave a lake that had two dams the closest of them, and
\* round 2 paired another lake with another dam
C20_PairedInBothRounds ==
  /\ script = "Reservoirs_retrieval" /\ closed
  /\ \E k, l \in 1..Len(matched_lakes) :
       /\ matched_lakes[k].MultiDams = 1 /\ matched_lakes[k].Dam_dist <= 500
       /\ matched_lakes[l].Dam_dist > 500
       /\ matched_lakes[k].Dam_officialID # matched_lakes[l].Dam_officialID

\* Geocoding_ICOLD geocodes the record of the row it is at: the record has a name, its
\* ICOLD ID enters considered_IDs and rows are written
Geocodes ==
  /\ script = "Geocoding_ICOLD" /\ ii \in 1..Len(infile_rows)
  /\ considered_IDs' # considered_IDs /\ geocoded_sheet' # geocoded_sheet /\ ii' = ii + 1
  /\ \/ Attr(infile_rows[ii]).dam_name # <<>> \/ Attr(infile_rows[ii]).dam_other_name # <<>>
     \/ Attr(infile_rows[ii]).reservoir_name # <<>>

\* the number of addresses Geocoding_ICOLD sends for the record of the row it is at
Addresses == Len(encoded_addr_array_unique(Attr(infile_rows[ii])))

\* C21 as stated: a row is written for a record only when every candidate of the record
\* has been examined: in Geomatching_ICOLD the loop over the register has ended, in
\* Geocoding_ICOLD every address of the record has been sent
C21_AllExamined ==
  [][/\ (script = "Geomatching_ICOLD" /\ ii >= 1 /\ OUT_sheet' # OUT_sheet)
          => reg_i > Len(registry)
     /\ Geocodes => Len(geodata') = Addresses]_vars

\* C21 amended: a row is written for a record only when every candidate of the record has
\* been examined, unless a candidate reaches the best tier: in Geomatching_ICOLD the row
\* written before the end of the loop over the register has level M1:1, in Geocoding_ICOLD
\* the row written before every address is sent is the one best possible solution, a
\* complete match of a scenario that cannot be improved
C21_AllExaminedUnlessBest ==
  [][/\ (script = "Geomatching_ICOLD" /\ ii >= 1 /\ OUT_sheet' # OUT_sheet)
          => \/ reg_i > Len(registry)
             \/ OUT_sheet' = Append(OUT_sheet, [row |-> infile_rows[ii], reg_QA |-> 10, reg_i |-> reg_i])
     /\ Geocodes
          => \/ Len(geodata') = Addresses
             \/ /\ success' = "Yes" /\ Len(geocoded_sheet') = Len(geocoded_sheet) + 1
                /\ geocoded_sheet'[Len(geocoded_sheet')].gc.match_scenario \in
                     {<<"complete-match", "in-state", "in-town">>,
                      <<"complete-match", "in-state", "unknown-town">>,
                      <<"complete-match", "in-town">>,
                      <<"complete-match", "unknown-state-town">>}]_vars

\* Geomatching_ICOLD has written the row of the record it is at, at level M1:1, and
\* register records after the one written have not been compared
C21_WrittenBeforeTheEnd ==
  /\ script = "Geomatching_ICOLD" /\ raised = "none" /\ QA_mark = 1
  /\ reg_i \in 1..(Len(registry) - 1)
  /\ OUT_sheet[Len(OUT_sheet)] = [row |-> infile_rows[ii], reg_QA |-> 10, reg_i |-> reg_i]

\* the verdict on the names tested in the order primary, alternate, associated feature,
\* each compared with the candidate name by itself: 1 at the first name that passes,
\* otherwise 0.5 when a name gave a match of tokens, otherwise 0
InOrder(primary, alternate, associated) ==
  IF primary.pass = 1 \/ alternate.pass = 1 \/ associated.pass = 1 THEN Ok(10)
  ELSE IF primary.alt = 1 \/ alternate.alt = 1 \/ associated.alt = 1 THEN Ok(5)
  ELSE Ok(0)

\* C22 as stated: damname_similar returns the verdict on its three names tested in order,
\* each independently against the candidate name
C22_NamesInOrder ==
  (script = "functions" /\ call.f = "damname_similar" /\ call.done) =>
    result = InOrder(DamBlock1(call.args[1], call.args[2], call.args[5], call.args[6]),
                     DamBlock1(call.args[1], call.args[3], call.args[5], call.args[6]),
                     DamBlock1(call.args[1], call.args[4], call.args[5], call.args[6]))

\* level a is worse than level b: no level at all, or a level of a greater number
Worse(a, b) == a # b /\ (a = 0 \/ (b # 0 /\ a > b))

\* the level of the record whose field is empty is not the level that a failed comparison
\* of the field gives, when failing the comparison lowers the level
NotAsMismatch(empty, passed, failed) == Worse(failed, passed) => empty # failed

\* C23 as stated: an empty state or town of the source record is never treated as a
\* mismatch: Geocoding_ICOLD labels no solution of the record out-town or out-state,
\* Geocoding_QA ranks the complete match in the state with the town unknown in the first
\* tier, and in Geomatching_ICOLD the level of a register record is not the one that a
\* town or state failing the comparison would give
C23_EmptyIsUnknown ==
  /\ \A k \in Below(geocoded_sheet) :
       /\ geocoded_sheet[k].row.town_original = <<>>
            => \A n \in DOMAIN geocoded_sheet[k].gc.match_scenario :
                 geocoded_sheet[k].gc.match_scenario[n] # "out-town"
       /\ geocoded_sheet[k].row.state_province = <<>>
            => \A n \in DOMAIN geocoded_sheet[k].gc.match_scenario :
                 geocoded_sheet[k].gc.match_scenario[n] # "out-state"
  /\ \A k \in Below(outfile_sheet) :
       (/\ outfile_sheet[k].row.town_original = <<>>
        /\ outfile_sheet[k].row.match = "complete-match"
        /\ outfile_sheet[k].row.scenario = <<"in-country", "in-state", "unknown-town">>)
         => outfile_sheet[k].QA_rank = 11
  /\ script = "Geomatching_ICOLD" =>
       \A i \in 1..Len(infile_rows), r \in 1..Len(registry) :
         /\ infile_rows[i].town_original = <<>> =>
              NotAsMismatch(Level(infile_rows[i], registry[r]),
                            Level([infile_rows[i] EXCEPT !.town_original = registry[r].registry_addr[1]], registry[r]),
                            Level([infile_rows[i] EXCEPT !.town_original = <<"z", "z", "z", "z">>], registry[r]))
         /\ infile_rows[i].state_province = <<>> =>
              NotAsMismatch(Level(infile_rows[i], registry[r]),
                            Level([infile_rows[i] EXCEPT !.state_province = registry[r].registry_addr[2]], registry[r]),
                            Level([infile_rows[i] EXCEPT !.state_province = <<"z", "z", "z", "z">>], registry[r]))

(* ------------------------------------------------------------------ *)
(* C24: the records are resolved independently of one another          *)
(* ------------------------------------------------------------------ *)

\* the row of the register that has this registry ID
RowOf(ID) == CHOOSE row \in registry_pool : row.registry_ID = ID

\* C24: nothing is carried from one record to the next: every record of the register
\* that Geomatching_ICOLD has loaded is the record that its own row gives when it is
\* loaded alone, whatever rows were loaded before it
C24_Independent ==
  script = "Geomatching_ICOLD" =>
    \A k \in 1..Len(registry) :
      registry_load(<<RowOf(registry[k].registry_ID)>>, 1, Raise("NameError")) = Ok(<<registry[k]>>)

(* ------------------------------------------------------------------ *)
(* C25: one row for each pair of coordinates                           *)
(* ------------------------------------------------------------------ *)

\* the place of a matching scenario in the order of preference
Preference(label) == CHOOSE r \in 1..Len(result_scenario_list) : result_scenario_list[r] = label

\* Geocoding_ICOLD has just sent the addresses of the row before ii and none of the
\* solutions was the best possible one
NoneIsBest ==
  /\ script = "Geocoding_ICOLD" /\ raised = "none" /\ success = "No" /\ ii >= 2
  /\ \A j \in 1..(ii - 2) : infile_rows[j].ICOLDID # infile_rows[ii - 1].ICOLDID

\* the solutions gathered for a record, in the order of the loop
Gathered(rec) == solutions_from(encoded_addr_array_unique(Attr(rec)), geodata, 1)

\* the rows of the output that belong to the ICOLD ID x
Written(x) == {k \in Below(geocoded_sheet) : geocoded_sheet[k].row.ICOLDID = x}

OneRowPerPair(all, written) ==
  /\ Len(match_scenario_array) = Len(all)
  /\ \A i \in 1..Len(all) :
       \E k \in written :
         /\ geocoded_sheet[k].gc.lat_lng = all[i].this_geodata.location
         /\ \A l \in written : geocoded_sheet[l].gc.lat_lng = geocoded_sheet[k].gc.lat_lng => l = k
  /\ \A k \in written :
       /\ \E i \in 1..Len(all) :
            /\ all[i].this_geodata.location = geocoded_sheet[k].gc.lat_lng
            /\ match_scenario_array[i] = geocoded_sheet[k].gc.match_scenario
       /\ \A i \in 1..Len(all) :
            all[i].this_geodata.location = geocoded_sheet[k].gc.lat_lng =>
              Preference(geocoded_sheet[k].gc.match_scenario) <= Preference(match_scenario_array[i])

\* C25: when none of the solutions of a record is the best possible one, the output has
\* exactly one row of the record for each pair of coordinates among its solutions, the
\* addresses without result included, every row of the record is at the pair of one of
\* its solutions, and the matching scenario of the row is the most preferred one among
\* the solutions at its pair
C25_OneRowPerPair ==
  NoneIsBest => OneRowPerPair(Gathered(infile_rows[ii - 1]), Written(infile_rows[ii - 1].ICOLDID))

\* two solutions of the record are at the same coordinates, the later one has the more
\* preferred scenario, and the row written at these coordinates carries it
C25_LaterIsPreferred ==
  /\ NoneIsBest
  /\ Len(match_scenario_array) = Len(Gathered(infile_rows[ii - 1]))
  /\ \E i, j \in 1..Len(match_scenario_array) :
       /\ i < j
       /\ Gathered(infile_rows[ii - 1])[i].this_geodata.location = Gathered(infile_rows[ii - 1])[j].this_geodata.location
       /\ Preference(match_scenario_array[j]) < Preference(match_scenario_array[i])
       /\ \E k \in Written(infile_rows[ii - 1].ICOLDID) :
            /\ geocoded_sheet[k].gc.lat_lng = Gathered(infile_rows[ii - 1])[j].this_geodata.location
            /\ geocoded_sheet[k].gc.match_scenario = match_scenario_array[j]

(* ------------------------------------------------------------------ *)
(* C26: the candidate name 'not found'                                 *)
(* ------------------------------------------------------------------ *)

\* C26: when the geocoded name is 'not found', damname_similar and damname_similar_v2
\* return -1 (-10 in tenths), whatever the three names of the record are
C26_NotFound ==
  (/\ script = "functions" /\ call.f \in {"damname_similar", "damname_similar_v2"} /\ call.done
   /\ call.args[5] = <<"n", "o", "t", " ", "f", "o", "u", "n", "d">>)
    => result = Ok(-10)

(* ------------------------------------------------------------------ *)
(* C27: similar and similar_v2                                         *)
(* ------------------------------------------------------------------ *)

\* C27: similar_v2 returns for every pair of strings the value that similar returns for
\* the pair
C27_SameAlgorithm ==
  (script = "functions" /\ call.f = "similar_v2" /\ call.done)
    => result = similar(call.args[1], call.args[2])

(* ------------------------------------------------------------------ *)
(* C28: the titles of the towns of China                               *)
(* ------------------------------------------------------------------ *)

\* the name without the title 'xian', 'shi' or 'qu' at its end and without the space
\* before it, when something is left; the name itself otherwise
Untitled(name) ==
  LET Rest(t) == Strip(SubSeq(name, 1, Len(name) - Len(t)))
      Ends(t) == Len(name) > Len(t) /\ Tail_n(name, Len(t)) = t /\ Rest(t) # <<>>
      titles == {<<"x", "i", "a", "n">>, <<"s", "h", "i">>, <<"q", "u">>}
  IN IF \E t \in titles : Ends(t) THEN Rest(CHOOSE t \in titles : Ends(t)) ELSE name

\* C28: for a record of China the title 'xian', 'shi' or 'qu' at the end of a town is
\* removed, with or without a space before it, from the town of the WRD and from the
\* division of the geocoding output alike, and what is left is not empty
C28_TitleRemoved ==
  (script = "functions" /\ call.f = "China_title" /\ call.done /\ call.args[3] = <<"c", "n">>)
    => result = Ok(Untitled(call.args[2])) /\ result.val # <<>>

(* ------------------------------------------------------------------ *)
(* C29: the address recorded in a row                                  *)
(* ------------------------------------------------------------------ *)

\* C29: in every row that Geocoding_ICOLD has written for a record that has a name, the
\* early rows of a best possible solution included, the text address and the encoded
\* address are those of one and the same address of the record, the address sent
C29_SameAddress ==
  \A k \in Below(geocoded_sheet) :
    geocoded_sheet[k].gc.match_scenario # <<"bad:", "no-name">> =>
      \E n \in DOMAIN encoded_addr_array_unique(Attr(geocoded_sheet[k].row)) :
        /\ encoded_addr_array_unique(Attr(geocoded_sheet[k].row))[n].encoded_addr
             = geocoded_sheet[k].gc.encoded_addr
        /\ encoded_addr_array_unique(Attr(geocoded_sheet[k].row))[n].text_encoded_addr
             = geocoded_sheet[k].gc.text_encoded_addr

(* ------------------------------------------------------------------ *)
(* C30: what a selected register record has passed                     *)
(* ------------------------------------------------------------------ *)

\* name_pass of a register record for a row of the WRD
NamePass(w, reg) ==
  damname_similar(similarity_threshold_GM, w.dam_name, w.dam_other_name, w.reservoir_name,
                  reg.registry_dam_name, w.this_country_ISO)

\* state_pass of a register record for a row of the WRD
StatePass(w, reg) ==
  admin_pass(similarity_metric_array(w.state_province_ascii, state_google_array(reg), 1),
             containment_check(Decomposed(state_google_array(reg), 1),
                               Decomposed(<<w.state_province_ascii>>, 1)))

Passed(reg_QA, w, reg, name_pass) ==
  /\ name_pass \in {Ok(5), Ok(10)}
  /\ country_pass(w, reg) = 1
  /\ StatePass(w, reg) = 1 \/ w.state_province_ascii = <<>>
  /\ reg_QA \in {10, 12, 20, 22, 30, 32} => name_pass = Ok(10)

\* C30: in the output that Geomatching_ICOLD leaves when it ends or stops, the register
\* record of every row has a name_pass of 0.5 or 1, the country of the WRD record, and
\* its state unless the WRD record has none; the levels 1, 1.2, 2, 2.2, 3 and 3.2 are
\* written only with a name_pass of 1
C30_GatePassed ==
  (script = "Geomatching_ICOLD" /\ (closed \/ raised # "none")) =>
    \A k \in Below(OUT_sheet) :
      /\ OUT_sheet[k].reg_QA \in {10} \cup Range(QA_levels)
      /\ Passed(OUT_sheet[k].reg_QA, GM_Attr(OUT_sheet[k].row), registry[OUT_sheet[k].reg_i],
                NamePass(GM_Attr(OUT_sheet[k].row), registry[OUT_sheet[k].reg_i]))

\* Geomatching_ICOLD has ended, a register record is written at a level below M1:1, and
\* a record of the register whose name fails the comparison is not the one written
C30_FailingNamePassedOver ==
  /\ script = "Geomatching_ICOLD" /\ closed
  /\ \E k \in Below(OUT_sheet), r \in 1..Len(registry) :
       /\ OUT_sheet[k].reg_QA # 10
       /\ r # OUT_sheet[k].reg_i
       /\ NamePass(GM_Attr(OUT_sheet[k].row), registry[r]) = Ok(0)


====
